---- MODULE Spec2Model ----
(***************************************************************************)
(* The request handlers of the note server (src/lsp/handlers.rs) as a      *)
(* state machine over the note store (FactsDB).                            *)
(*                                                                         *)
(* The store maps each known note path to the note's text, version and     *)
(* the facts the store derives from the text (structure elements and       *)
(* diagnostics).  The markdown parser, the diagnostics computation and the *)
(* position bridge are collaborators of the handlers: what they derive     *)
(* from a new text enters the write handlers as an input.                  *)
(***************************************************************************)
EXTENDS Integers, Sequences, FiniteSets, TLC

VARIABLES
    facts,      \* FactsDB: [known note paths -> note]
    diagCol,    \* the DiagCollection the caller keeps between diag passes
    passSets,   \* history: each note's diagnostic set at the last pass that returned a collection
    resp        \* the last request and what its handler returned

vars == <<facts, diagCol, passSets, resp>>

----------------------------------------------------------------------------
(* Bounds *)

MaxVersion == 2
MaxChanges == 2
MaxTextLen == 3

----------------------------------------------------------------------------
(* Option<T>: None is the empty sequence, Some(x) the one-element sequence *)

None == <<>>
Some(x) == <<x>>

Min(a, b) == IF a <= b THEN a ELSE b
Max(a, b) == IF a >= b THEN a ELSE b

EmptyMap == [k \in {} |-> TRUE]

MapInsert(m, k, v) == [x \in (DOMAIN m) \cup {k} |-> IF x = k THEN v ELSE m[x]]

MapRemove(m, k) == [x \in (DOMAIN m) \ {k} |-> m[x]]

----------------------------------------------------------------------------
(* Note files, names and uris *)

Root == "/r"

NoteNames == {"A", "B"}

\* NoteName::to_path(root)
ToPath(name) == Root \o "/" \o name \o ".md"

Paths == {ToPath(n) : n \in NoteNames}

\* NoteName::from_path(path, root)
FromPath(path) == CHOOSE n \in NoteNames : ToPath(n) = path

\* Url::from_file_path
UrlFromFilePath(path) == "file://" \o path

\* note_index().ids() / files(): the known notes in index order
IndexOrder == <<ToPath("A"), ToPath("B")>>

Ids(f) == SelectSeq(IndexOrder, LAMBDA p : p \in DOMAIN f)

\* note_index().find_by_path
FindByPath(f, path) == IF path \in DOMAIN f THEN Some(path) ELSE None

\* Version::Vs(n): the version an editor request carries
Vs(n) == [kind |-> "Vs", n |-> n]

\* the version of a note read from disk
Fs == [kind |-> "Fs", n |-> 0]

\* NoteText::new with the facts the store derives from the text
Note(version, text, parsed) ==
    [text |-> text, version |-> version, els |-> parsed.els, diag |-> parsed.diag]

----------------------------------------------------------------------------
(* Text and the offset map (lsp_text) *)

\* OffsetMap::new: the offsets at which the lines of the text start
OffsetMap(text) ==
    LET nl == {i \in 1..Len(text) : text[i] = "\n"}
        F[k \in 0..Cardinality(nl)] ==
            IF k = 0 THEN <<0>>
            ELSE LET prev == F[k - 1]
                     nxt == CHOOSE i \in nl : i > prev[Len(prev)] /\
                                \A j \in nl : j > prev[Len(prev)] => i <= j
                 IN Append(prev, nxt)
    IN F[Cardinality(nl)]

\* the offset of an editor position under an offset map, within a text of
\* length len: past the end of a line it is the line's end, past the last
\* line the end of the text
PosToOffset(om, len, pos) ==
    IF pos.line >= Len(om) THEN len
    ELSE LET start == Min(om[pos.line + 1], len)
             lineEnd == IF pos.line + 1 < Len(om)
                        THEN Min(om[pos.line + 2] - 1, len) ELSE len
         IN Min(start + pos.character, lineEnd)

\* lsp_text::apply_change(text, offset_map, range, new_text)
ApplyChange(text, om, range, newText) ==
    IF range = None THEN newText
    ELSE LET s == PosToOffset(om, Len(text), range[1].start)
             e == Max(s, PosToOffset(om, Len(text), range[1].end))
         IN SubSeq(text, 1, s) \o newText \o SubSeq(text, e + 1, Len(text))

----------------------------------------------------------------------------
(* What the store derives from a note's text *)

\* The parser and the diagnostics computation answer with one of `choices`
\* for a text.  heading.scope is used to slice the text unchecked
\* (handlers.rs:283, 326), so scopes lie within the text; spans go through
\* the fallible position bridge and may be stale.
ValidFor(parsed, text) ==
    \A i \in 1..Len(parsed.els) :
        parsed.els[i].kind = "Heading" =>
            /\ 0 <= parsed.els[i].scope.start
            /\ parsed.els[i].scope.start <= parsed.els[i].scope.end
            /\ parsed.els[i].scope.end <= Len(text)

ParsesOf(choices, text) == {q \in choices : ValidFor(q, text)}

----------------------------------------------------------------------------
(* Text Sync *)

\* the loop with the offset map of the text as it was before the current
\* change list taken once: later ranges resolve against stale line starts
RECURSIVE ApplyChangesStaleMap(_, _, _)
ApplyChangesStaleMap(final_text, om, changes) ==
    IF changes = <<>> THEN final_text
    ELSE ApplyChangesStaleMap(ApplyChange(final_text, om,
                                          Head(changes).range, Head(changes).text),
                              om, Tail(changes))

ApplyChangesStale(final_text, changes) ==
    ApplyChangesStaleMap(final_text, OffsetMap(final_text), changes)

\* the loop of note_apply_changes: every change is applied to the text the
\* previous changes produced, under an offset map computed from that text
RECURSIVE ApplyChanges(_, _)
ApplyChanges(final_text, changes) ==
    IF changes = <<>> THEN final_text
    ELSE ApplyChanges(ApplyChange(final_text, OffsetMap(final_text),
                                  Head(changes).range, Head(changes).text),
                      Tail(changes))

\* note_apply_changes that admits a note it does not know, with the changes
\* applied to an empty text
NoteApplyChangesAdmits(path, version, changes, choices) ==
    /\ LET old_text == IF path \in DOMAIN facts THEN facts[path].text ELSE <<>>
           final_text == ApplyChanges(old_text, changes)
       IN \E parsed \in ParsesOf(choices, final_text) :
              facts' = MapInsert(facts, path, Note(Vs(version), final_text, parsed))
    /\ resp' = [op |-> "note_apply_changes", path |-> path, version |-> version,
                changes |-> changes,
                before |-> IF path \in DOMAIN facts THEN Some(facts[path]) ELSE None]
    /\ UNCHANGED <<diagCol, passSets>>

\* note_apply_changes that replaces the text and leaves the version alone
NoteApplyChangesKeepsVersion(path, version, changes, choices) ==
    /\ IF FindByPath(facts, path) # None
       THEN LET final_text == ApplyChanges(facts[path].text, changes)
            IN \E parsed \in ParsesOf(choices, final_text) :
                   facts' = [facts EXCEPT
                               ![path] = Note(facts[path].version, final_text, parsed)]
       ELSE facts' = facts
    /\ resp' = [op |-> "note_apply_changes", path |-> path, version |-> version,
                changes |-> changes,
                before |-> IF path \in DOMAIN facts THEN Some(facts[path]) ELSE None]
    /\ UNCHANGED <<diagCol, passSets>>

\* note_apply_changes that returns early on an empty list of changes
NoteApplyChangesSkipsEmpty(path, version, changes, choices) ==
    /\ IF FindByPath(facts, path) # None /\ changes # <<>>
       THEN LET final_text == ApplyChanges(facts[path].text, changes)
            IN \E parsed \in ParsesOf(choices, final_text) :
                   facts' = [facts EXCEPT ![path] = Note(Vs(version), final_text, parsed)]
       ELSE facts' = facts
    /\ resp' = [op |-> "note_apply_changes", path |-> path, version |-> version,
                changes |-> changes,
                before |-> IF path \in DOMAIN facts THEN Some(facts[path]) ELSE None]
    /\ UNCHANGED <<diagCol, passSets>>

NoteApplyChanges(path, version, changes, choices) ==
    /\ IF FindByPath(facts, path) # None
       THEN LET final_text == ApplyChanges(facts[path].text, changes)
            IN \E parsed \in ParsesOf(choices, final_text) :
                   facts' = [facts EXCEPT ![path] = Note(Vs(version), final_text, parsed)]
       ELSE facts' = facts
    /\ resp' = [op |-> "note_apply_changes", path |-> path, version |-> version,
                changes |-> changes,
                before |-> IF path \in DOMAIN facts THEN Some(facts[path]) ELSE None]
    /\ UNCHANGED <<diagCol, passSets>>

NoteOpen(path, version, text, choices) ==
    /\ \E parsed \in ParsesOf(choices, text) :
           facts' = MapInsert(facts, path, Note(Vs(version), text, parsed))
    /\ resp' = [op |-> "note_open", path |-> path, version |-> version,
                before |-> IF path \in DOMAIN facts THEN Some(facts[path]) ELSE None]
    /\ UNCHANGED <<diagCol, passSets>>

\* note_close: facts.with_file re-reads the file; a file that is gone (or
\* ignored) leaves the store, one that exists is admitted with its text on disk
NoteClose(path, disk, choices) ==
    /\ IF disk = None
       THEN facts' = MapRemove(facts, path)
       ELSE \E parsed \in ParsesOf(choices, disk[1]) :
                facts' = MapInsert(facts, path, Note(Fs, disk[1], parsed))
    /\ resp' = [op |-> "note_close", path |-> path]
    /\ UNCHANGED <<diagCol, passSets>>

----------------------------------------------------------------------------
(* Diagnostics *)

\* diag::to_publish(file, diag, facts)
ToPublish(file, diag, f) ==
    Some([uri |-> UrlFromFilePath(file), diagnostics |-> diag])

\* a file with the previous collection's set swallowing the current one is
\* taken as unchanged (a removed diagnostic goes unnoticed)
ChangedForFileSubset(file, diag, prev_diag_col) ==
    IF file \in DOMAIN prev_diag_col
    THEN ~(diag \subseteq prev_diag_col[file])
    ELSE TRUE

\* changed_for_file: by-value inequality of the two sets; no previous entry
\* counts as changed
ChangedForFile(file, diag, prev_diag_col) ==
    IF file \in DOMAIN prev_diag_col
    THEN prev_diag_col[file] # diag
    ELSE TRUE

\* the loop of diag over note_index().ids()
RECURSIVE DiagLoop(_, _, _, _)
DiagLoop(ids, f, prev_diag_col, acc) ==
    IF ids = <<>> THEN acc
    ELSE LET file == Head(ids)
             diag == f[file].diag
             changed_for_file == ChangedForFile(file, diag, prev_diag_col)
             param == ToPublish(file, diag, f)
         IN DiagLoop(Tail(ids), f, prev_diag_col,
                [changed |-> acc.changed \/ changed_for_file,
                 diag_params |-> IF changed_for_file /\ param # None
                                 THEN Append(acc.diag_params, param[1])
                                 ELSE acc.diag_params,
                 new_col |-> MapInsert(acc.new_col, file, diag)])

\* diag that builds the new collection on top of the previous one
DiagCarriesOver(f, prev_diag_col) ==
    LET r == DiagLoop(Ids(f), f, prev_diag_col,
                      [changed |-> FALSE, diag_params |-> <<>>, new_col |-> prev_diag_col])
    IN IF r.changed
       THEN Some([diag_params |-> r.diag_params, new_col |-> r.new_col])
       ELSE None

\* diag without the final test of `changed`: an unchanged pass returns an
\* empty notification list
DiagAlwaysResult(f, prev_diag_col) ==
    LET r == DiagLoop(Ids(f), f, prev_diag_col,
                      [changed |-> FALSE, diag_params |-> <<>>, new_col |-> EmptyMap])
    IN Some([diag_params |-> r.diag_params, new_col |-> r.new_col])

Diag(f, prev_diag_col) ==
    LET r == DiagLoop(Ids(f), f, prev_diag_col,
                      [changed |-> FALSE, diag_params |-> <<>>, new_col |-> EmptyMap])
    IN IF r.changed
       THEN Some([diag_params |-> r.diag_params, new_col |-> r.new_col])
       ELSE None

\* One diagnostics pass of the server loop: the caller hands diag the
\* collection it kept, and keeps the returned one when there is a result.
DiagPass ==
    LET r == Diag(facts, diagCol)
    IN /\ resp' = [op |-> "diag", after |-> resp.op, prev |-> diagCol,
                   first |-> passSets, result |-> r]
       /\ diagCol' = IF r # None THEN r[1].new_col ELSE diagCol
       /\ passSets' = IF r # None THEN [p \in DOMAIN facts |-> facts[p].diag]
                      ELSE passSets
       /\ UNCHANGED facts

----------------------------------------------------------------------------
(* Diagnostics: the store under open / edit / close, and diag passes *)

\* DiagWithLoc values: two differ in one field only
Diags == {[kind |-> "broken", at |-> 0], [kind |-> "broken", at |-> 1]}

DiagParses == [els : {<<>>}, diag : SUBSET Diags]

DiagText == <<"a">>

Init ==
    /\ facts = EmptyMap
    /\ diagCol = EmptyMap
    /\ passSets = EmptyMap
    /\ resp = [op |-> "init"]

NextDiag ==
    \/ \E p \in Paths : NoteOpen(p, 1, DiagText, DiagParses)
    \/ \E p \in Paths : NoteApplyChanges(p, 1, <<>>, DiagParses)
    \/ \E p \in Paths, disk \in {None, Some(DiagText)} : NoteClose(p, disk, DiagParses)
    \/ DiagPass

SpecDiag == Init /\ [][NextDiag]_vars

----------------------------------------------------------------------------
(* Diagnostics Differ: claims *)

Published == IF resp.result = None THEN <<>> ELSE resp.result[1].diag_params

\* C1: of two diag passes where the second is given the collection the first
\* returned, a file whose diagnostic set is the same in both is not in the
\* second pass's publish list, and a file whose set differs is in it, with
\* its current set.
DiagDifferPublishesExactlyChanged ==
    resp.op = "diag" =>
        \A file \in (DOMAIN facts) \cap (DOMAIN resp.first) :
            /\ facts[file].diag = resp.first[file] =>
                   \A i \in 1..Len(Published) :
                       Published[i].uri # UrlFromFilePath(file)
            /\ facts[file].diag # resp.first[file] =>
                   \E i \in 1..Len(Published) :
                       Published[i] = [uri |-> UrlFromFilePath(file),
                                       diagnostics |-> facts[file].diag]

\* a second pass with one file unchanged and one file with a diagnostic
\* removed: only the latter is published
DiagDifferWitness ==
    /\ resp.op = "diag"
    /\ Len(Published) = 1
    /\ \E same, other \in (DOMAIN facts) \cap (DOMAIN resp.first) :
           /\ facts[same].diag = resp.first[same]
           /\ facts[other].diag # resp.first[other]
           /\ facts[other].diag \subseteq resp.first[other]
           /\ Published[1].uri = UrlFromFilePath(other)

\* C2: a pass returns no result exactly when every known note's set equals
\* its entry in the previous collection; a result has a non-empty
\* notification list and a collection with each known note's current set;
\* from an empty collection a first pass over N >= 1 notes publishes all N
\* files and returns N entries (over no notes nothing has changed and there
\* is no result); a pass right after a pass returns no result.
DiagResultIffChanged ==
    resp.op = "diag" =>
        LET unchanged == \A file \in DOMAIN facts :
                             /\ file \in DOMAIN resp.prev
                             /\ resp.prev[file] = facts[file].diag
            N == Cardinality(DOMAIN facts)
        IN /\ (resp.result = None) <=> unchanged
           /\ resp.result # None =>
                  /\ Len(Published) > 0
                  /\ DOMAIN resp.result[1].new_col = DOMAIN facts
                  /\ \A file \in DOMAIN facts :
                         resp.result[1].new_col[file] = facts[file].diag
           /\ (DOMAIN resp.prev = {} /\ N >= 1) =>
                  /\ resp.result # None
                  /\ Len(Published) = N
                  /\ {Published[i].uri : i \in 1..Len(Published)} =
                         {UrlFromFilePath(file) : file \in DOMAIN facts}
                  /\ Cardinality(DOMAIN resp.result[1].new_col) = N
           /\ resp.after = "diag" => resp.result = None

\* the first pass over two notes with one diagnostic each, from the empty
\* collection
DiagFirstPassWitness ==
    /\ resp.op = "diag"
    /\ DOMAIN resp.prev = {}
    /\ DOMAIN facts = Paths
    /\ \A file \in DOMAIN facts : Cardinality(facts[file].diag) = 1
    /\ Len(Published) = 2

\* the repeated pass
DiagRepeatedPassWitness ==
    /\ resp.op = "diag"
    /\ resp.after = "diag"
    /\ DOMAIN resp.prev = Paths
    /\ resp.result = None

----------------------------------------------------------------------------
(* Text Sync: one note under edit sequences; the other path stays unknown *)

NoParse == {[els |-> <<>>, diag |-> {}]}

SyncPositions == {[line |-> 0, character |-> 1], [line |-> 1, character |-> 0]}

PosLeq(p, q) == p.line < q.line \/ (p.line = q.line /\ p.character <= q.character)

SyncRanges ==
    {r \in [start : SyncPositions, end : SyncPositions] : PosLeq(r.start, r.end)}

SyncChanges ==
    {[range |-> Some(r), text |-> t] : r \in SyncRanges, t \in {<<>>, <<"\n">>}}
    \cup {[range |-> None, text |-> <<"c">>]}

SyncChangeSeqs == UNION {[1..n -> SyncChanges] : n \in 0..MaxChanges}

NextSync ==
    \/ NoteOpen(ToPath("A"), 1, <<"a", "b">>, NoParse)
    \/ \E changes \in SyncChangeSeqs :
           /\ ToPath("A") \in DOMAIN facts =>
                  Len(ApplyChanges(facts[ToPath("A")].text, changes)) <= MaxTextLen
           /\ NoteApplyChanges(ToPath("A"), 1, changes, NoParse)
    \/ \E changes \in {c \in SyncChangeSeqs : Len(c) <= 1} :
           NoteApplyChanges(ToPath("B"), 1, changes, NoParse)

SpecSync == Init /\ [][NextSync]_vars

\* The offset an editor position denotes in a text, read off the text
\* itself: the offset on the position's line with the position's column,
\* else the end of that line, else (no such line) the end of the text.
LineOfOffset(text, o) == Cardinality({i \in 1..o : text[i] = "\n"})

OffsetAt(text, pos) ==
    LET onLine == {o \in 0..Len(text) : LineOfOffset(text, o) = pos.line}
        lineStart == CHOOSE o \in onLine : \A q \in onLine : o <= q
        lineEnd == CHOOSE o \in onLine : \A q \in onLine : q <= o
    IN IF onLine = {} THEN Len(text)
       ELSE Min(lineStart + pos.character, lineEnd)

\* one edit against a given text
EditOf(text, change) ==
    IF change.range = None THEN change.text
    ELSE LET s == OffsetAt(text, change.range[1].start)
             e == Max(s, OffsetAt(text, change.range[1].end))
         IN [i \in 1..(s + Len(change.text) + Len(text) - e) |->
                IF i <= s THEN text[i]
                ELSE IF i <= s + Len(change.text) THEN change.text[i - s]
                ELSE text[i - Len(change.text) - s + e]]

\* the texts after 0, 1, .. n edits, each edit against the text before it
TextsAfter(text, changes) ==
    LET T[i \in 0..Len(changes)] ==
            IF i = 0 THEN text ELSE EditOf(T[i - 1], changes[i])
    IN T

AppliedToKnown ==
    /\ resp.op = "note_apply_changes"
    /\ resp.before # None

\* C3: note_apply_changes on a known note stores the text obtained by
\* applying the edits left to right, the range of each edit resolved against
\* the text the edits before it produced; the stored text is this function of
\* the initial text and the edit sequence.
ApplyChangesSequential ==
    AppliedToKnown =>
        facts[resp.path].text =
            TextsAfter(resp.before[1].text, resp.changes)[Len(resp.changes)]

Reverse(seq) == [i \in 1..Len(seq) |-> seq[Len(seq) + 1 - i]]

\* two edits, the second denoting another offset in the text after the first
\* than in the original text, and the reordered sequence giving another text
ApplyChangesSequentialWitness ==
    /\ AppliedToKnown
    /\ Len(resp.changes) = 2
    /\ resp.changes[2].range # None
    /\ LET t0 == resp.before[1].text
           t1 == TextsAfter(t0, resp.changes)[1]
       IN /\ \/ OffsetAt(t1, resp.changes[2].range[1].start) #
                    OffsetAt(t0, resp.changes[2].range[1].start)
             \/ OffsetAt(t1, resp.changes[2].range[1].end) #
                    OffsetAt(t0, resp.changes[2].range[1].end)
          /\ facts[resp.path].text #
                 TextsAfter(t0, Reverse(resp.changes))[2]

\* C4: note_apply_changes for a path that is not in the note index leaves
\* the whole store as it is: no note is created and no text or version of
\* any note changes.  (The handler returns unit: there is no error to surface.)
UnknownNoteEditIsNoOp ==
    [][(resp'.op = "note_apply_changes" /\ resp'.path \notin DOMAIN facts)
           => facts' = facts]_vars

\* an edit for the unknown note while another note is in the store
UnknownNoteEditWitness ==
    /\ resp.op = "note_apply_changes"
    /\ resp.before = None
    /\ Len(resp.changes) = 1
    /\ resp.path \notin DOMAIN facts
    /\ DOMAIN facts # {}

----------------------------------------------------------------------------
(* Versions: two notes under open / edit / close with request versions *)

VerChanges == {<<>>, <<[range |-> None, text |-> <<"c">>]>>}

NextVer ==
    \/ \E p \in Paths, v \in 1..MaxVersion : NoteOpen(p, v, <<"a">>, NoParse)
    \/ \E p \in Paths, v \in 1..MaxVersion, changes \in VerChanges :
           NoteApplyChanges(p, v, changes, NoParse)
    \/ \E p \in Paths, disk \in {None, Some(<<"a">>)} : NoteClose(p, disk, NoParse)

SpecVer == Init /\ [][NextVer]_vars

\* C5 as stated: over note_open and note_apply_changes calls on a note the
\* stored version never decreases, and after note_apply_changes on a known
\* note it is the request's version.
VersionNeverDecreases ==
    /\ (resp.op \in {"note_open", "note_apply_changes"} /\ resp.before # None
            /\ resp.before[1].version.kind = "Vs")
           => facts[resp.path].version.n >= resp.before[1].version.n
    /\ AppliedToKnown => facts[resp.path].version = Vs(resp.version)

\* C5, amended: after note_open, and after note_apply_changes on a known
\* note, the stored version is the version the request carries (so it does
\* not decrease when the request's version is not below the stored one).
VersionIsRequestVersion ==
    /\ (resp.op = "note_open" \/ AppliedToKnown)
           => facts[resp.path].version = Vs(resp.version)
    /\ (resp.op \in {"note_open", "note_apply_changes"} /\ resp.before # None
            /\ resp.before[1].version.kind = "Vs"
            /\ resp.version >= resp.before[1].version.n)
           => facts[resp.path].version.n >= resp.before[1].version.n

\* an edit that carries a higher version than the stored one
VersionIsRequestVersionWitness ==
    /\ AppliedToKnown
    /\ resp.before[1].version = Vs(1)
    /\ resp.version = 2
    /\ facts[resp.path].version = Vs(2)

----------------------------------------------------------------------------
(* Structure of a note and the lookups of the note facts *)

\* Element::Heading with its span
Heading(text, level, span, scope) ==
    [kind |-> "Heading", text |-> text, level |-> level, span |-> span,
     scope |-> scope, note_name |-> None, heading |-> None]

\* Element::LinkRef with its span; text is the raw text of the reference
LinkRef(text, note_name, heading, span) ==
    [kind |-> "LinkRef", text |-> text, level |-> 0, span |-> span,
     scope |-> span, note_name |-> note_name, heading |-> heading]

\* any other element (a regular link)
OtherEl(span) ==
    [kind |-> "Link", text |-> <<>>, level |-> 0, span |-> span,
     scope |-> span, note_name |-> None, heading |-> None]

Span(a, b) == [start |-> a, end |-> b]

\* NoteName::into_string / to_string: names are one character long
NameChars(name) == <<name>>

\* note_index().find_by_name
FindByName(f, name) ==
    IF \E p \in DOMAIN f : FromPath(p) = name
    THEN Some(CHOOSE p \in DOMAIN f : FromPath(p) = name)
    ELSE None

\* util::text_matches_query: the query occurs in the text
TextMatchesQuery(text, query) ==
    \E i \in 0..(Len(text) - Len(query)) :
        SubSeq(text, i + 1, i + Len(query)) = query

\* the ids (indices) of a set of elements in the order of the structure
RECURSIVE Ascending(_)
Ascending(S) ==
    IF S = {} THEN <<>>
    ELSE LET m == CHOOSE x \in S : \A y \in S : x <= y
         IN <<m>> \o Ascending(S \ {m})

HeadingIds(note) == {i \in 1..Len(note.els) : note.els[i].kind = "Heading"}

\* structure.headings()
Headings(note) == Ascending(HeadingIds(note))

\* note.title(): the first heading of level 1
Title(note) ==
    LET ids == Ascending({i \in HeadingIds(note) : note.els[i].level = 1})
    IN IF ids = <<>> THEN None ELSE Some(ids[1])

\* note.heading_with_text: the first heading with exactly this text
HeadingWithText(note, text) ==
    LET ids == Ascending({i \in HeadingIds(note) : note.els[i].text = text})
    IN IF ids = <<>> THEN None ELSE Some(ids[1])

\* note.headings_matching(|hd| text_matches_query(hd.text, query))
HeadingsMatching(note, query) ==
    Ascending({i \in HeadingIds(note) : TextMatchesQuery(note.els[i].text, query)})

\* indexed_text().offset_to_lsp_position: undefined past the end of the text
OffsetToLspPosition(text, offset) ==
    IF offset < 0 \/ offset > Len(text) THEN None
    ELSE LET om == OffsetMap(text)
             line == Cardinality({k \in 1..Len(om) : om[k] <= offset}) - 1
         IN Some([line |-> line, character |-> offset - om[line + 1]])

\* indexed_text().range_to_lsp_range
RangeToLspRange(text, span) ==
    LET s == OffsetToLspPosition(text, span.start)
        e == OffsetToLspPosition(text, span.end)
    IN IF s = None \/ e = None \/ span.start > span.end THEN None
       ELSE Some([start |-> s[1], end |-> e[1]])

\* note.element_at_lsp_pos: the innermost element whose span holds the
\* position's offset
ElementAtLspPos(note, pos) ==
    LET om == OffsetMap(note.text)
        valid == pos.line < Len(om)
        o == PosToOffset(om, Len(note.text), pos)
        encl == {i \in 1..Len(note.els) :
                    note.els[i].span.start <= o /\ o < note.els[i].span.end}
        size(i) == note.els[i].span.end - note.els[i].span.start
        inner == {i \in encl : \A j \in encl : size(i) <= size(j)}
    IN IF ~valid \/ encl = {} THEN None
       ELSE Some(CHOOSE i \in inner : \A j \in inner : i <= j)

\* &text.content[range]
Slice(text, range) == SubSeq(text, range.start + 1, range.end)

\* a panic of the handler (an unwrap of None)
Panic == <<"panic", "unwrap on None">>

----------------------------------------------------------------------------
(* Hover, Go to *)

\* the body of hover with the whole text of the target for every reference
HoverLinkRefWholeText(f, path, link_ref, span) ==
    LET target_id == FindByName(f, IF link_ref.note_name # None
                                   THEN link_ref.note_name[1] ELSE FromPath(path))
    IN IF target_id = None THEN None
       ELSE Some([contents |-> [kind |-> "markdown", value |-> f[target_id[1]].text],
                  range |-> RangeToLspRange(f[path].text, span)])

\* the body of hover for a hovered link reference (lines 314-339)
HoverLinkRef(f, path, link_ref, span) ==
    LET note_name == FromPath(path)
        range == RangeToLspRange(f[path].text, span)
        target_note_name == IF link_ref.note_name # None
                            THEN link_ref.note_name[1] ELSE note_name
        target_id == FindByName(f, target_note_name)
    IN IF target_id = None THEN None
       ELSE
       LET target_note == f[target_id[1]]
           h_id == IF link_ref.heading # None
                   THEN HeadingWithText(target_note, link_ref.heading[1])
                   ELSE None
       IN IF link_ref.heading # None /\ h_id = None THEN None
          ELSE
          LET text == IF link_ref.heading # None
                      THEN Slice(target_note.text, target_note.els[h_id[1]].scope)
                      ELSE target_note.text
          IN Some([contents |-> [kind |-> "markdown", value |-> text],
                   range |-> range])

\* hover without the test that the hovered element is a link reference
HoverAnyElement(f, path, pos) ==
    IF FindByPath(f, path) = None THEN None
    ELSE LET el_id == ElementAtLspPos(f[path], pos)
         IN IF el_id = None THEN None
            ELSE HoverLinkRef(f, path, f[path].els[el_id[1]], f[path].els[el_id[1]].span)

Hover(f, path, pos) ==
    IF FindByPath(f, path) = None THEN None
    ELSE LET el_id == ElementAtLspPos(f[path], pos)
         IN IF el_id = None THEN None
            ELSE LET hovered_el == f[path].els[el_id[1]]
                 IN IF hovered_el.kind = "LinkRef"
                    THEN HoverLinkRef(f, path, hovered_el, hovered_el.span)
                    ELSE None

\* the body of goto_definition for an enclosing link reference (lines 357-378)
GotoLinkRef(f, path, link_ref) ==
    LET target_note_name == IF link_ref.note_name # None
                            THEN link_ref.note_name[1] ELSE FromPath(path)
        target_id == FindByName(f, target_note_name)
    IN IF target_id = None THEN None
       ELSE
       LET target_note == f[target_id[1]]
           h_id == IF link_ref.heading # None
                   THEN HeadingWithText(target_note, link_ref.heading[1])
                   ELSE Title(target_note)
       IN IF h_id = None THEN None
          ELSE
          LET target_range == target_note.els[h_id[1]].span
              range == RangeToLspRange(target_note.text, target_range)
          IN IF range = None THEN Panic
             ELSE Some([uri |-> UrlFromFilePath(target_id[1]), range |-> range[1]])

GotoDefinition(f, path, pos) ==
    IF FindByPath(f, path) = None THEN None
    ELSE LET el_id == ElementAtLspPos(f[path], pos)
         IN IF el_id = None THEN None
            ELSE LET encl_el == f[path].els[el_id[1]]
                 IN IF encl_el.kind = "LinkRef"
                    THEN GotoLinkRef(f, path, encl_el)
                    ELSE None

HoverReq(path, pos) ==
    /\ resp' = [op |-> "hover", path |-> path, pos |-> pos,
                result |-> Hover(facts, path, pos)]
    /\ UNCHANGED <<facts, diagCol, passSets>>

GotoDefinitionReq(path, pos) ==
    /\ resp' = [op |-> "goto_definition", path |-> path, pos |-> pos,
                result |-> GotoDefinition(facts, path, pos)]
    /\ UNCHANGED <<facts, diagCol, passSets>>

----------------------------------------------------------------------------
(* Navigation: hover and goto_definition over the stores of two notes *)

MaxHeadings == 2

TextA == <<"a", "\n", "b">>
TextB == <<"c", "d">>

\* the element at offset 2 of note A (line 1, character 0), if any
NavRefs ==
    {LinkRef(<<>>, n, h, Span(2, 3)) :
        n \in {None, Some("B"), Some("C")},
        h \in {None, Some(<<"I">>), Some(<<"X">>)}}
    \cup {OtherEl(Span(2, 3))}

\* a section heading, a title, and a title whose span is stale
NavHeadings ==
    {Heading(<<"I">>, 2, Span(0, 1), Span(0, 2)),
     Heading(<<"J">>, 1, Span(0, 1), Span(0, 1)),
     Heading(<<"I">>, 1, Span(4, 5), Span(1, 2))}

SeqsUpTo(S, n) == UNION {[1..k -> S] : k \in 0..n}

NavNotesA ==
    {Note(Vs(1), TextA, [els |-> hs \o r, diag |-> {}]) :
        hs \in SeqsUpTo(NavHeadings, MaxHeadings),
        r \in {<<>>} \cup {<<x>> : x \in NavRefs}}

NavNotesB ==
    {Note(Vs(1), TextB, [els |-> hs, diag |-> {}]) :
        hs \in SeqsUpTo(NavHeadings, MaxHeadings)}

\* the store with note A and note B as given (None: not in the store)
StoreOf(a, b) ==
    [p \in {ToPath("A") : x \in {1} \cap {IF a = None THEN 0 ELSE 1}}
           \cup {ToPath("B") : x \in {1} \cap {IF b = None THEN 0 ELSE 1}} |->
        IF p = ToPath("A") THEN a[1] ELSE b[1]]

Stores(notesA, notesB) ==
    {StoreOf(a, b) : a \in {None} \cup {Some(n) : n \in notesA},
                     b \in {None} \cup {Some(n) : n \in notesB}}

NavPositions == {[line |-> 0, character |-> 0], [line |-> 0, character |-> 1],
                 [line |-> 1, character |-> 0]}

InitNav ==
    /\ facts \in Stores(NavNotesA, NavNotesB)
    /\ diagCol = EmptyMap
    /\ passSets = EmptyMap
    /\ resp = [op |-> "init"]

NextNav ==
    \/ \E p \in Paths, pos \in NavPositions : HoverReq(p, pos)
    \/ \E p \in Paths, pos \in NavPositions : GotoDefinitionReq(p, pos)

SpecNav == InitNav /\ [][NextNav]_vars

\* the element enclosing the request's position is absent or no LinkRef
NotOnLinkRef ==
    /\ resp.path \in DOMAIN facts
    /\ LET el_id == ElementAtLspPos(facts[resp.path], resp.pos)
       IN el_id = None \/ facts[resp.path].els[el_id[1]].kind # "LinkRef"

\* C6: for a note N and a position P whose enclosing element in N is absent
\* or is not a LinkRef, hover(N, P) and goto_definition(N, P) yield nothing.
NoLinkRefNoResult ==
    (resp.op \in {"hover", "goto_definition"} /\ NotOnLinkRef)
        => resp.result = None

\* hover on a regular link, in a store where hovering a link reference at
\* the same place would have a result
NoLinkRefNoResultWitness ==
    /\ resp.op = "hover"
    /\ NotOnLinkRef
    /\ ElementAtLspPos(facts[resp.path], resp.pos) # None
    /\ facts[resp.path].els[ElementAtLspPos(facts[resp.path], resp.pos)[1]].kind = "Link"
    /\ resp.result = None

----------------------------------------------------------------------------
(* Completion *)

\* CompletionType
NoteCompletion(note_name) == [type |-> "NoteCompletion", note_name |-> note_name]

HeadingCompletion(note_name, heading) ==
    [type |-> "HeadingCompletion", note_name |-> note_name, heading |-> heading]

\* serde_json::to_value of a CompletionType: the variant name maps to the
\* object of its fields
CompletionTypeToValue(ct) ==
    IF ct.type = "NoteCompletion"
    THEN [NoteCompletion |-> [note_name |-> ct.note_name]]
    ELSE [HeadingCompletion |-> [note_name |-> ct.note_name, heading |-> ct.heading]]

\* serde_json::from_value::<CompletionType>, as an Option
CompletionTypeFromValue(v) ==
    IF DOMAIN v = {"NoteCompletion"} /\ DOMAIN v.NoteCompletion = {"note_name"}
    THEN Some(NoteCompletion(v.NoteCompletion.note_name))
    ELSE IF DOMAIN v = {"HeadingCompletion"}
            /\ DOMAIN v.HeadingCompletion = {"note_name", "heading"}
    THEN Some(HeadingCompletion(v.HeadingCompletion.note_name,
                                v.HeadingCompletion.heading))
    ELSE None

\* CompletionItem
CompletionItem(label, kind, detail, insert_text, data) ==
    [label |-> label, kind |-> kind, detail |-> detail, insert_text |-> insert_text,
     data |-> data, documentation |-> None]

\* the note-name branch (lines 172-207): one candidate per other note whose
\* title matches the partial input
RECURSIVE NoteCandidates(_, _, _, _)
NoteCandidates(f, ids, encl_note_id, partial_input) ==
    IF ids = <<>> THEN <<>>
    ELSE LET candidate_id == Head(ids)
             cand == f[candidate_id]
             rest == NoteCandidates(f, Tail(ids), encl_note_id, partial_input)
         IN IF candidate_id = encl_note_id THEN rest
            ELSE IF Title(cand) = None THEN rest
            ELSE LET title == cand.els[Title(cand)[1]]
                     name == FromPath(candidate_id)
                 IN IF ~TextMatchesQuery(title.text, partial_input) THEN rest
                    ELSE <<CompletionItem(title.text, "File",
                                          Some(NameChars(name)), Some(NameChars(name)),
                                          Some(CompletionTypeToValue(NoteCompletion(name))))>>
                         \o rest

\* the heading branch without the test of the heading level
RECURSIVE HeadingCandidatesAnyLevel(_, _, _)
HeadingCandidatesAnyLevel(cand, candidate_headings, target_note_name) ==
    IF candidate_headings = <<>> THEN <<>>
    ELSE LET hd == cand.els[Head(candidate_headings)]
         IN <<CompletionItem(hd.text, "Text", None, None,
                  Some(CompletionTypeToValue(HeadingCompletion(target_note_name, hd.text))))>>
            \o HeadingCandidatesAnyLevel(cand, Tail(candidate_headings), target_note_name)

\* the loop of the heading branch (lines 229-246)
RECURSIVE HeadingCandidates(_, _, _)
HeadingCandidates(cand, candidate_headings, target_note_name) ==
    IF candidate_headings = <<>> THEN <<>>
    ELSE LET hd == cand.els[Head(candidate_headings)]
             rest == HeadingCandidates(cand, Tail(candidate_headings), target_note_name)
         IN IF hd.level = 1 THEN rest
            ELSE <<CompletionItem(hd.text, "Text", None, None,
                       Some(CompletionTypeToValue(HeadingCompletion(target_note_name, hd.text))))>>
                 \o rest

\* link_ref.text.contains('@')
ContainsAt(text) == \E i \in 1..Len(text) : text[i] = "@"

TriesToMatchNote(link_ref) == link_ref.heading = None /\ ~ContainsAt(link_ref.text)

\* completion_candidates without the test for an empty list of candidates
CompletionCandidatesKeepsEmpty(f, current_tag, pos) ==
    IF FindByPath(f, current_tag) = None THEN None
    ELSE
    LET encl_note == f[current_tag]
        el_id == ElementAtLspPos(encl_note, pos)
    IN IF el_id = None THEN None
       ELSE IF encl_note.els[el_id[1]].kind # "LinkRef" THEN None
       ELSE
       LET enclosing_link_ref == encl_note.els[el_id[1]]
           candidates ==
               IF TriesToMatchNote(enclosing_link_ref)
               THEN LET partial_input ==
                            IF enclosing_link_ref.note_name # None
                            THEN NameChars(enclosing_link_ref.note_name[1]) ELSE <<>>
                    IN Some(NoteCandidates(f, Ids(f), current_tag, partial_input))
               ELSE LET target_note_name ==
                            IF enclosing_link_ref.note_name # None
                            THEN enclosing_link_ref.note_name[1]
                            ELSE FromPath(current_tag)
                        target_tag ==
                            IF enclosing_link_ref.note_name # None
                            THEN ToPath(enclosing_link_ref.note_name[1])
                            ELSE current_tag
                    IN IF FindByPath(f, target_tag) = None THEN None
                       ELSE LET cand == f[target_tag]
                                query == IF enclosing_link_ref.heading # None
                                         THEN enclosing_link_ref.heading[1] ELSE <<>>
                            IN Some(HeadingCandidates(cand, HeadingsMatching(cand, query),
                                                      target_note_name))
       IN candidates

CompletionCandidates(f, current_tag, pos) ==
    IF FindByPath(f, current_tag) = None THEN None
    ELSE
    LET encl_note == f[current_tag]
        el_id == ElementAtLspPos(encl_note, pos)
    IN IF el_id = None THEN None
       ELSE IF encl_note.els[el_id[1]].kind # "LinkRef" THEN None
       ELSE
       LET enclosing_link_ref == encl_note.els[el_id[1]]
           candidates ==
               IF TriesToMatchNote(enclosing_link_ref)
               THEN LET partial_input ==
                            IF enclosing_link_ref.note_name # None
                            THEN NameChars(enclosing_link_ref.note_name[1]) ELSE <<>>
                    IN Some(NoteCandidates(f, Ids(f), current_tag, partial_input))
               ELSE LET target_note_name ==
                            IF enclosing_link_ref.note_name # None
                            THEN enclosing_link_ref.note_name[1]
                            ELSE FromPath(current_tag)
                        target_tag ==
                            IF enclosing_link_ref.note_name # None
                            THEN ToPath(enclosing_link_ref.note_name[1])
                            ELSE current_tag
                    IN IF FindByPath(f, target_tag) = None THEN None
                       ELSE LET cand == f[target_tag]
                                query == IF enclosing_link_ref.heading # None
                                         THEN enclosing_link_ref.heading[1] ELSE <<>>
                            IN Some(HeadingCandidates(cand, HeadingsMatching(cand, query),
                                                      target_note_name))
       IN IF candidates = None THEN None
          ELSE IF candidates[1] = <<>> THEN None
          ELSE candidates

CompletionCandidatesReq(path, pos) ==
    /\ resp' = [op |-> "completion_candidates", path |-> path, pos |-> pos,
                result |-> CompletionCandidates(facts, path, pos)]
    /\ UNCHANGED <<facts, diagCol, passSets>>

----------------------------------------------------------------------------
(* Completion over the stores of two notes *)

\* the element at offset 2 of note A: a reference being typed, or a link
ComplRefs ==
    {LinkRef(raw, n, h, Span(2, 3)) :
        raw \in {<<>>, <<"@">>},
        n \in {None, Some("B"), Some("I")},
        h \in {None, Some(<<"I">>), Some(<<"n">>)}}
    \cup {OtherEl(Span(2, 3))}

\* a title, a section with the title's text, another section
ComplHeadings ==
    {Heading(<<"I">>, 1, Span(0, 1), Span(0, 2)),
     Heading(<<"I">>, 2, Span(0, 1), Span(0, 1)),
     Heading(<<"I", "n">>, 2, Span(0, 1), Span(1, 2))}

ComplNotesA ==
    {Note(Vs(1), TextA, [els |-> hs \o r, diag |-> {}]) :
        hs \in SeqsUpTo(ComplHeadings, MaxHeadings),
        r \in {<<>>} \cup {<<x>> : x \in ComplRefs}}

ComplNotesB ==
    {Note(Vs(1), TextB, [els |-> hs, diag |-> {}]) :
        hs \in SeqsUpTo(ComplHeadings, MaxHeadings)}

ComplPositions == {[line |-> 0, character |-> 1], [line |-> 1, character |-> 0]}

InitCompl ==
    /\ facts \in Stores(ComplNotesA, ComplNotesB)
    /\ diagCol = EmptyMap
    /\ passSets = EmptyMap
    /\ resp = [op |-> "init"]

NextCompl ==
    \E p \in Paths, pos \in ComplPositions : CompletionCandidatesReq(p, pos)

SpecCompl == InitCompl /\ [][NextCompl]_vars

\* the link reference under the cursor of the last request
CursorRef == facts[resp.path].els[ElementAtLspPos(facts[resp.path], resp.pos)[1]]

OnLinkRef ==
    /\ resp.path \in DOMAIN facts
    /\ ElementAtLspPos(facts[resp.path], resp.pos) # None
    /\ CursorRef.kind = "LinkRef"

Offered == IF resp.result = None THEN <<>> ELSE resp.result[1]

\* the target note of the heading branch
HeadingTargetName ==
    IF CursorRef.note_name # None THEN CursorRef.note_name[1] ELSE FromPath(resp.path)

\* the headings of the target note above level 1 whose text has the typed
\* partial heading in it
OfferableHeadings ==
    LET target == facts[ToPath(HeadingTargetName)]
        typed == IF CursorRef.heading # None THEN CursorRef.heading[1] ELSE <<>>
    IN {i \in 1..Len(target.els) :
           /\ target.els[i].kind = "Heading"
           /\ target.els[i].level # 1
           /\ \E k \in 1..(Len(target.els[i].text) + 1) :
                  \A j \in 1..Len(typed) :
                      /\ k + j - 1 <= Len(target.els[i].text)
                      /\ target.els[i].text[k + j - 1] = typed[j]}

\* C7: in the note-name branch no candidate's NoteCompletion payload names
\* the note the cursor is in; in the heading branch the candidates are, one
\* for one, the headings of the target note that are not of level 1 and
\* match the typed partial heading: no level-1 heading is offered and every
\* such heading is.
CompletionOffersNoSelfNoTitle ==
    (resp.op = "completion_candidates" /\ OnLinkRef) =>
        IF CursorRef.heading = None /\ \A i \in 1..Len(CursorRef.text) : CursorRef.text[i] # "@"
        THEN \A i \in 1..Len(Offered) :
                 /\ DOMAIN Offered[i].data[1] = {"NoteCompletion"}
                 /\ Offered[i].data[1].NoteCompletion.note_name # FromPath(resp.path)
        ELSE ToPath(HeadingTargetName) \in DOMAIN facts =>
                 LET target == facts[ToPath(HeadingTargetName)]
                 IN /\ Len(Offered) = Cardinality(OfferableHeadings)
                    /\ \A h \in OfferableHeadings :
                           \E i \in 1..Len(Offered) :
                               /\ Offered[i].label = target.els[h].text
                               /\ Offered[i].data[1] =
                                      [HeadingCompletion |->
                                          [note_name |-> HeadingTargetName,
                                           heading |-> target.els[h].text]]
                    /\ \A i \in 1..Len(Offered) :
                           \E h \in OfferableHeadings :
                               Offered[i].label = target.els[h].text

\* the heading branch on a note with a title and a section that both match:
\* the section alone is offered
CompletionHeadingWitness ==
    /\ resp.op = "completion_candidates"
    /\ OnLinkRef
    /\ CursorRef.heading = Some(<<"I">>)
    /\ CursorRef.note_name = Some("B")
    /\ ToPath("B") \in DOMAIN facts
    /\ \E i, j \in 1..Len(facts[ToPath("B")].els) :
           /\ facts[ToPath("B")].els[i].level = 1
           /\ facts[ToPath("B")].els[j].level = 2
           /\ facts[ToPath("B")].els[j].text = <<"I", "n">>
    /\ Len(Offered) = 1
    /\ Offered[1].label = <<"I", "n">>

\* the note-name branch in a store where both notes have a matching title:
\* the other note alone is offered
CompletionNoteWitness ==
    /\ resp.op = "completion_candidates"
    /\ OnLinkRef
    /\ CursorRef.heading = None /\ CursorRef.text = <<>>
    /\ \A p \in Paths : p \in DOMAIN facts /\ Title(facts[p]) # None
    /\ Len(Offered) = 1
    /\ Offered[1].detail = Some(<<"B">>)

----------------------------------------------------------------------------
(* Semantic tokens *)

\* a panic is told from a result by its length (a result is None or Some(x))
IsPanic(r) == Len(r) = 2

\* semantic_token_type_mapping: CLASS (Heading) is 0, PROPERTY (LinkRef) is 1
SemanticTokenTypeMapping(tok_type) ==
    IF tok_type = "CLASS" THEN 0 ELSE 1

\* elements.sort_by_key(|(_, span)| span.start): a stable sort of the ids
RECURSIVE SortByStart(_, _)
SortByStart(note, ids) ==
    IF ids = <<>> THEN <<>>
    ELSE LET key(k) == note.els[ids[k]].span.start
             m == CHOOSE k \in 1..Len(ids) :
                      \A j \in 1..Len(ids) : key(k) < key(j) \/ (key(k) = key(j) /\ k <= j)
         IN <<ids[m]>> \o
            SortByStart(note, SubSeq(ids, 1, m - 1) \o SubSeq(ids, m + 1, Len(ids)))

\* the loop over the elements as they come, with no sort before it
RECURSIVE EncodeLoop(_, _, _)
EncodeLoop(note, ids, acc) ==
    IF acc.panic \/ ids = <<>> THEN acc
    ELSE LET el == note.els[Head(ids)]
         IN IF el.kind # "LinkRef" THEN EncodeLoop(note, Tail(ids), acc)
            ELSE
            LET el_pos == RangeToLspRange(note.text, el.span)
            IN IF el_pos = None THEN [acc EXCEPT !.panic = TRUE]
               ELSE IF el_pos[1].end.line > el_pos[1].start.line
               THEN EncodeLoop(note, Tail(ids), acc)
               ELSE
               LET delta_line == el_pos[1].start.line - acc.cur_line
                   delta_start == IF delta_line = 0
                                  THEN el_pos[1].start.character - acc.cur_char_offset
                                  ELSE el_pos[1].start.character
                   length == el_pos[1].end.character - el_pos[1].start.character
                   token == [delta_line |-> delta_line, delta_start |-> delta_start,
                             length |-> length,
                             token_type |-> SemanticTokenTypeMapping("PROPERTY"),
                             token_modifiers_bitset |-> 0]
               IN EncodeLoop(note, Tail(ids),
                             [panic |-> FALSE, encoded |-> Append(acc.encoded, token),
                              cur_line |-> el_pos[1].start.line,
                              cur_char_offset |-> el_pos[1].start.character])

EncodeStart == [panic |-> FALSE, encoded |-> <<>>, cur_line |-> 0, cur_char_offset |-> 0]

SemanticTokensEncodeUnsorted(note, elements) ==
    EncodeLoop(note, elements, EncodeStart)

\* semantic_tokens_encode: [panic, encoded]
SemanticTokensEncode(note, elements) ==
    EncodeLoop(note, SortByStart(note, elements), EncodeStart)

\* note.elements_in_lsp_range: the elements that overlap the range; nothing
\* when the range has no offsets in the text
ElementsInLspRange(note, range) ==
    LET om == OffsetMap(note.text)
        s == PosToOffset(om, Len(note.text), range.start)
        e == PosToOffset(om, Len(note.text), range.end)
    IN IF range.start.line >= Len(om) \/ range.end.line >= Len(om) THEN None
       ELSE Some(Ascending({i \in 1..Len(note.els) :
                               note.els[i].span.start < e /\ s < note.els[i].span.end}))

SemanticTokensRange(f, path, range) ==
    IF FindByPath(f, path) = None THEN None
    ELSE LET note == f[path]
             element_ids == ElementsInLspRange(note, range)
         IN IF element_ids = None THEN None
            ELSE LET r == SemanticTokensEncode(note, element_ids[1])
                 IN IF r.panic THEN Panic ELSE Some(r.encoded)

SemanticTokensFull(f, path) ==
    IF FindByPath(f, path) = None THEN None
    ELSE LET note == f[path]
             r == SemanticTokensEncode(note, Ascending(1..Len(note.els)))
         IN IF r.panic THEN Panic ELSE Some(r.encoded)

SemanticTokensFullReq(path) ==
    /\ resp' = [op |-> "semantic_tokens_full", path |-> path,
                result |-> SemanticTokensFull(facts, path)]
    /\ UNCHANGED <<facts, diagCol, passSets>>

SemanticTokensRangeReq(path, range) ==
    /\ resp' = [op |-> "semantic_tokens_range", path |-> path, range |-> range,
                result |-> SemanticTokensRange(facts, path, range)]
    /\ UNCHANGED <<facts, diagCol, passSets>>

----------------------------------------------------------------------------
(* Semantic tokens over the structures of one note of two lines *)

MaxEls == 3

TokText == <<"a", "b", "\n", "c", "d">>

\* link references on line 0 and line 1, one across the line break, one
\* with a stale span; a heading and a regular link
TokEls ==
    {LinkRef(<<>>, None, None, Span(0, 1)),
     LinkRef(<<>>, None, None, Span(1, 2)),
     LinkRef(<<>>, None, None, Span(3, 5)),
     LinkRef(<<>>, None, None, Span(1, 4)),
     LinkRef(<<>>, None, None, Span(6, 7)),
     Heading(<<"I">>, 1, Span(0, 2), Span(0, 5)),
     OtherEl(Span(3, 4))}

TokNotes ==
    {Note(Vs(1), TokText, [els |-> els, diag |-> {}]) : els \in SeqsUpTo(TokEls, MaxEls)}

TokRanges == {[start |-> [line |-> 0, character |-> 0], end |-> [line |-> 1, character |-> 0]],
              [start |-> [line |-> 0, character |-> 1], end |-> [line |-> 1, character |-> 2]],
              [start |-> [line |-> 1, character |-> 0], end |-> [line |-> 2, character |-> 0]]}

InitTok ==
    /\ facts \in Stores(TokNotes, {})
    /\ diagCol = EmptyMap
    /\ passSets = EmptyMap
    /\ resp = [op |-> "init"]

NextTok ==
    \/ \E p \in Paths : SemanticTokensFullReq(p)
    \/ \E p \in Paths, range \in TokRanges : SemanticTokensRangeReq(p, range)

SpecTok == InitTok /\ [][NextTok]_vars

\* the ids handed to semantic_tokens_encode by the request in resp
TokInput ==
    IF resp.op = "semantic_tokens_full"
    THEN Ascending(1..Len(facts[resp.path].els))
    ELSE ElementsInLspRange(facts[resp.path], resp.range)[1]

TokProduced ==
    /\ resp.op \in {"semantic_tokens_full", "semantic_tokens_range"}
    /\ Len(resp.result) = 1

\* the editor position of an offset, by counting line breaks
StartPos(text, o) ==
    LET breaks == {0} \cup {k \in 1..o : text[k] = "\n"}
        lineStart == CHOOSE k \in breaks : \A j \in breaks : j <= k
    IN [line |-> LineOfOffset(text, o), character |-> o - lineStart]

\* the absolute start positions a client decodes from a token list
Decoded(toks) ==
    LET D[i \in 0..Len(toks)] ==
            IF i = 0 THEN [line |-> 0, character |-> 0]
            ELSE [line |-> D[i - 1].line + toks[i].delta_line,
                  character |-> IF toks[i].delta_line = 0
                                THEN D[i - 1].character + toks[i].delta_start
                                ELSE toks[i].delta_start]
    IN D

PosLexLeq(p, q) ==
    p.line < q.line \/ (p.line = q.line /\ p.character <= q.character)

\* the single-line link references among the input
TokEmittable(note, ids) ==
    {k \in 1..Len(ids) :
        /\ note.els[ids[k]].kind = "LinkRef"
        /\ LineOfOffset(note.text, note.els[ids[k]].span.end)
               = LineOfOffset(note.text, note.els[ids[k]].span.start)}

TokOrders(S) ==
    {o \in [1..Cardinality(S) -> S] : \A i, j \in DOMAIN o : i # j => o[i] # o[j]}

\* C8: a produced token list decodes to non-decreasing absolute start
\* positions; its tokens are, one for one, the single-line LinkRef elements
\* of the input (type index 1), each decoding to its element's start
\* position; a token with delta_line = 0 has delta_start = its start
\* character minus the previous emitted token's start character and a token
\* with delta_line > 0 has delta_start = its absolute start character, so
\* skipped elements leave the running line/character alone.
TokensEncodeDeltas ==
    TokProduced =>
        LET note == facts[resp.path]
            ids == TokInput
            toks == resp.result[1]
            D == Decoded(toks)
            E == TokEmittable(note, ids)
        IN /\ Len(toks) = Cardinality(E)
           /\ \A i, j \in 1..Len(toks) : i <= j => PosLexLeq(D[i], D[j])
           /\ \E o \in TokOrders(E) :
                 \A i \in 1..Len(toks) :
                    LET at == StartPos(note.text, note.els[ids[o[i]]].span.start)
                        prev == IF i = 1 THEN [line |-> 0, character |-> 0]
                                ELSE StartPos(note.text, note.els[ids[o[i - 1]]].span.start)
                    IN /\ D[i] = at
                       /\ toks[i].token_type = 1
                       /\ toks[i].delta_line >= 0
                       /\ toks[i].delta_line = 0 =>
                              toks[i].delta_start = at.character - prev.character
                       /\ toks[i].delta_line > 0 =>
                              toks[i].delta_start = at.character

\* two tokens on one line from an input that is out of order and holds a
\* multi-line link reference sorted between them
TokensEncodeDeltasWitness ==
    /\ TokProduced
    /\ resp.op = "semantic_tokens_full"
    /\ LET note == facts[resp.path]
           toks == resp.result[1]
       IN /\ Len(toks) = 2
          /\ toks[2].delta_line = 0 /\ toks[2].delta_start > 0
          /\ note.els[1].span.start > note.els[Len(note.els)].span.start
          /\ \E i \in 1..Len(note.els) :
                /\ note.els[i].kind = "LinkRef"
                /\ LineOfOffset(note.text, note.els[i].span.end)
                       > LineOfOffset(note.text, note.els[i].span.start)

\* a token on a later line than the token before it, with a heading in the input
TokensEncodeNextLineWitness ==
    /\ TokProduced
    /\ LET note == facts[resp.path]
           toks == resp.result[1]
       IN /\ Len(toks) = 2
          /\ toks[2].delta_line > 0
          /\ \E i \in 1..Len(note.els) : note.els[i].kind = "Heading"

\* the link references of the input whose span has no editor range
TokUnconvertible(note, ids) ==
    {k \in 1..Len(ids) :
        /\ note.els[ids[k]].kind = "LinkRef"
        /\ RangeToLspRange(note.text, note.els[ids[k]].span) = None}

TokRequestRuns ==
    /\ resp.op \in {"semantic_tokens_full", "semantic_tokens_range"}
    /\ resp.path \in DOMAIN facts
    /\ resp.op = "semantic_tokens_range" =>
           ElementsInLspRange(facts[resp.path], resp.range) # None

\* C9: when a LinkRef of the input has a span with no editor range, the
\* request does not abort and returns the tokens of all the other elements.
UnconvertibleLinkRefSkipped ==
    (TokRequestRuns /\ TokUnconvertible(facts[resp.path], TokInput) # {}) =>
        LET note == facts[resp.path]
            ids == TokInput
            others == Ascending((1..Len(ids)) \ TokUnconvertible(note, ids))
            kept == [k \in 1..Len(others) |-> ids[others[k]]]
        IN /\ ~IsPanic(resp.result)
           /\ resp.result = Some(SemanticTokensEncode(note, kept).encoded)

\* a request over an input holding an unconvertible link reference
UnconvertibleLinkRefWitness ==
    /\ TokRequestRuns
    /\ TokUnconvertible(facts[resp.path], TokInput) # {}
    /\ IsPanic(resp.result)

----------------------------------------------------------------------------
(* Code lenses *)

\* the note and heading a link reference points at: the named note (else the
\* note it is in), the named heading (else the title)
RefTarget(f, src, link_ref) ==
    LET target_id == FindByName(f, IF link_ref.note_name # None
                                   THEN link_ref.note_name[1] ELSE FromPath(src))
    IN IF target_id = None THEN None
       ELSE LET h_id == IF link_ref.heading # None
                        THEN HeadingWithText(f[target_id[1]], link_ref.heading[1])
                        ELSE Title(f[target_id[1]])
            IN IF h_id = None THEN None ELSE Some(<<target_id[1], h_id[1]>>)

RECURSIVE RefsFrom(_, _, _, _)
RefsFrom(f, srcs, path, h_id) ==
    IF srcs = <<>> THEN <<>>
    ELSE LET src == Head(srcs)
             ref_ids == Ascending({i \in 1..Len(f[src].els) :
                            /\ f[src].els[i].kind = "LinkRef"
                            /\ RefTarget(f, src, f[src].els[i]) = Some(<<path, h_id>>)})
         IN [k \in 1..Len(ref_ids) |-> <<src, ref_ids[k]>>]
            \o RefsFrom(f, Tail(srcs), path, h_id)

\* note.refs_to_heading: the (note, reference) pairs that point at the heading
RefsToHeading(f, path, h_id) == RefsFrom(f, Ids(f), path, h_id)

\* ReferenceData and its serde_json form, an object of two fields
ReferenceData(note_path, heading_text) ==
    [note_path |-> note_path, heading_text |-> heading_text]

ReferenceDataToValue(ref_data) ==
    [json |-> "object",
     fields |-> {<<"note_path", ref_data.note_path>>,
                 <<"heading_text", ref_data.heading_text>>}]

\* the loop of code_lenses without the test of the reference count
RECURSIVE CodeLensesLoopAllHeadings(_, _, _)
CodeLensesLoopAllHeadings(f, path, h_ids) ==
    IF h_ids = <<>> THEN <<>>
    ELSE LET note == f[path]
             h_id == Head(h_ids)
             rest == CodeLensesLoopAllHeadings(f, path, Tail(h_ids))
             lsp_range == RangeToLspRange(note.text, note.els[h_id].span)
         IN IF lsp_range = None THEN rest
            ELSE <<[range |-> lsp_range[1], command |-> None,
                    data |-> Some(ReferenceDataToValue(
                                ReferenceData(path, note.els[h_id].text)))]>> \o rest

\* the loop of code_lenses over the headings (lines 550-573)
RECURSIVE CodeLensesLoop(_, _, _)
CodeLensesLoop(f, path, h_ids) ==
    IF h_ids = <<>> THEN <<>>
    ELSE LET note == f[path]
             h_id == Head(h_ids)
             rest == CodeLensesLoop(f, path, Tail(h_ids))
             ref_count == Len(RefsToHeading(f, path, h_id))
         IN IF ref_count = 0 THEN rest
            ELSE
            LET heading == note.els[h_id]
                lsp_range == RangeToLspRange(note.text, heading.span)
            IN IF lsp_range = None THEN rest
               ELSE <<[range |-> lsp_range[1], command |-> None,
                       data |-> Some(ReferenceDataToValue(
                                   ReferenceData(path, heading.text)))]>> \o rest

CodeLenses(f, path) ==
    IF FindByPath(f, path) = None THEN None
    ELSE Some(CodeLensesLoop(f, path, Headings(f[path])))

CodeLensesReq(path) ==
    /\ resp' = [op |-> "code_lenses", path |-> path, result |-> CodeLenses(facts, path)]
    /\ UNCHANGED <<facts, diagCol, passSets>>

----------------------------------------------------------------------------
(* Code lenses over the stores of two notes *)

\* a link reference at offset 1 of a note, to a note and to a heading or a title
LensRefs ==
    {LinkRef(<<>>, n, h, Span(1, 2)) :
        n \in {None, Some("A"), Some("B")},
        h \in {None, Some(<<"I">>), Some(<<"J">>)}}

LensNotesA ==
    {Note(Vs(1), TextA, [els |-> hs \o r, diag |-> {}]) :
        hs \in SeqsUpTo(NavHeadings, MaxHeadings),
        r \in {<<>>} \cup {<<x>> : x \in LensRefs}}

LensNotesB ==
    {Note(Vs(1), TextB, [els |-> r, diag |-> {}]) :
        r \in {<<>>} \cup {<<x>> : x \in LensRefs}}

InitLens ==
    /\ facts \in Stores(LensNotesA, LensNotesB)
    /\ diagCol = EmptyMap
    /\ passSets = EmptyMap
    /\ resp = [op |-> "init"]

NextLens == \E p \in Paths : CodeLensesReq(p)

SpecLens == InitLens /\ [][NextLens]_vars

\* the number of link references of the store that point at the heading
Incoming(f, path, h_id) ==
    Cardinality({sr \in UNION {{<<src, i>> : i \in 1..Len(f[src].els)} : src \in DOMAIN f} :
                    /\ f[sr[1]].els[sr[2]].kind = "LinkRef"
                    /\ RefTarget(f, sr[1], f[sr[1]].els[sr[2]]) = Some(<<path, h_id>>)})

\* the headings that get a lens: referenced, with a span that has an editor range
Lensed(f, path) ==
    {h \in HeadingIds(f[path]) :
        /\ Incoming(f, path, h) >= 1
        /\ RangeToLspRange(f[path].text, f[path].els[h].span) # None}

\* C10: code_lenses for a known note returns one lens for each heading with
\* at least one incoming reference and a convertible range, in the order of
\* the headings, and none for any other heading; each lens has no command
\* and carries the ReferenceData of the requested path and the heading's text.
CodeLensesOnePerReferencedHeading ==
    (resp.op = "code_lenses" /\ resp.path \in DOMAIN facts) =>
        /\ resp.result # None
        /\ LET note == facts[resp.path]
               lenses == resp.result[1]
               hs == Ascending(Lensed(facts, resp.path))
           IN /\ Len(lenses) = Len(hs)
              /\ \A k \in 1..Len(lenses) :
                    /\ Some(lenses[k].range) = RangeToLspRange(note.text, note.els[hs[k]].span)
                    /\ lenses[k].command = None
                    /\ lenses[k].data # None
                    /\ lenses[k].data[1].json = "object"
                    /\ lenses[k].data[1].fields = {<<"note_path", resp.path>>,
                                                   <<"heading_text", note.els[hs[k]].text>>}

\* one lens from a note of two headings, the other heading unreferenced
CodeLensesWitness ==
    /\ resp.op = "code_lenses" /\ resp.path \in DOMAIN facts
    /\ Len(resp.result[1]) = 1
    /\ Cardinality(HeadingIds(facts[resp.path])) = 2
    /\ \E h \in HeadingIds(facts[resp.path]) :
          /\ Incoming(facts, resp.path, h) = 0
          /\ RangeToLspRange(facts[resp.path].text, facts[resp.path].els[h].span) # None

\* a referenced heading whose span has no editor range gets no lens
CodeLensesStaleWitness ==
    /\ resp.op = "code_lenses" /\ resp.path \in DOMAIN facts
    /\ resp.result = Some(<<>>)
    /\ \E h \in HeadingIds(facts[resp.path]) : Incoming(facts, resp.path, h) >= 1

----------------------------------------------------------------------------
(* Code lens resolution *)

\* the value of a field of a serde_json object, if the object has it
JsonField(v, name) ==
    IF v.json = "object" /\ \E e \in v.fields : e[1] = name
    THEN Some((CHOOSE e \in v.fields : e[1] = name)[2])
    ELSE None

\* serde_json::from_value::<ReferenceData>(..).ok()
ReferenceDataFromValue(v) ==
    IF JsonField(v, "note_path") # None /\ JsonField(v, "heading_text") # None
    THEN Some(ReferenceData(JsonField(v, "note_path")[1], JsonField(v, "heading_text")[1]))
    ELSE None

\* ShowReferencesData and its serde_json form
ShowReferencesData(uri, position, locations) ==
    [uri |-> uri, position |-> position, locations |-> locations]

ShowReferencesDataToValue(data) ==
    [json |-> "object",
     fields |-> {<<"uri", data.uri>>, <<"position", data.position>>,
                 <<"locations", data.locations>>}]

\* the loop over the references (lines 607-625)
RECURSIVE ResolveLocations(_, _)
ResolveLocations(f, references) ==
    IF references = <<>> THEN <<>>
    ELSE LET src_note_id == Head(references)[1]
             src_ref_id == Head(references)[2]
             src_note == f[src_note_id]
             src_range == src_note.els[src_ref_id].span
             lsp_range == RangeToLspRange(src_note.text, src_range)
             rest == ResolveLocations(f, Tail(references))
         IN IF lsp_range = None THEN rest
            ELSE <<[uri |-> UrlFromFilePath(src_note_id), range |-> lsp_range[1]]>> \o rest

\* format!("{} references", num_locs)
ReferencesTitle(num_locs) == ToString(num_locs) \o " references"

\* the loop with every reference counted, convertible or not
CodeLensCommandAllRefs(f, note_id, heading_id, heading_lsp_pos) ==
    LET references == RefsToHeading(f, note_id, heading_id)
        locations == ResolveLocations(f, references)
    IN [title |-> ReferencesTitle(Len(references)),
        command |-> "zetaNote.showReferences",
        arguments |-> IF locations = <<>> THEN None
                      ELSE Some(<<ShowReferencesDataToValue(
                               ShowReferencesData(UrlFromFilePath(note_id),
                                                  heading_lsp_pos, locations))>>)]

\* the command of a resolved lens (lines 604-642)
CodeLensCommand(f, note_id, heading_id, heading_lsp_pos) ==
    LET references == RefsToHeading(f, note_id, heading_id)
        locations == ResolveLocations(f, references)
        num_locs == Len(locations)
        arguments == IF locations = <<>> THEN None
                     ELSE Some(<<ShowReferencesDataToValue(
                              ShowReferencesData(UrlFromFilePath(note_id),
                                                 heading_lsp_pos, locations))>>)
    IN [title |-> ReferencesTitle(num_locs),
        command |-> "zetaNote.showReferences",
        arguments |-> arguments]

CodeLensResolve(f, lens) ==
    IF lens.data = None THEN None
    ELSE LET ref_data == ReferenceDataFromValue(lens.data[1])
         IN IF ref_data = None THEN None
            ELSE IF FindByPath(f, ref_data[1].note_path) = None THEN None
            ELSE
            LET note_id == ref_data[1].note_path
                note == f[note_id]
                heading_id == HeadingWithText(note, ref_data[1].heading_text)
            IN IF heading_id = None THEN None
               ELSE
               LET heading_range == note.els[heading_id[1]].span
                   heading_lsp_pos == OffsetToLspPosition(note.text, heading_range.start)
               IN IF heading_lsp_pos = None THEN None
                  ELSE Some([lens EXCEPT !.command =
                                Some(CodeLensCommand(f, note_id, heading_id[1],
                                                     heading_lsp_pos[1]))])

CodeLensResolveReq(lens) ==
    /\ resp' = [op |-> "code_lens_resolve", lens |-> lens,
                result |-> CodeLensResolve(facts, lens)]
    /\ UNCHANGED <<facts, diagCol, passSets>>

----------------------------------------------------------------------------
(* Code lens generation and resolution over the stores of two notes *)

MaxRefs == 2

\* link references of note B to note A (to its title or to a heading), with
\* a span inside the text or stale
ResRefsB ==
    {LinkRef(<<>>, Some("A"), h, sp) :
        h \in {None, Some(<<"I">>)},
        sp \in {Span(1, 2), Span(5, 6)}}

\* link references of note A to its own headings
ResRefsA ==
    {LinkRef(<<>>, None, Some(h), sp) :
        h \in {<<"I">>, <<"J">>}, sp \in {Span(2, 3), Span(5, 6)}}

ResNotesA ==
    {Note(Vs(1), TextA, [els |-> hs \o r, diag |-> {}]) :
        hs \in SeqsUpTo(NavHeadings, MaxHeadings),
        r \in {<<>>} \cup {<<x>> : x \in ResRefsA}}

ResNotesB ==
    {Note(Vs(1), TextB, [els |-> r, diag |-> {}]) : r \in SeqsUpTo(ResRefsB, MaxRefs)}

\* the lenses a client sends: no payload, a payload that is not a
\* ReferenceData, and payloads naming a known or unknown note and a heading
ResClientLenses ==
    {[range |-> [start |-> [line |-> 0, character |-> 0],
                 end |-> [line |-> 0, character |-> 1]],
      command |-> None, data |-> d] :
        d \in {None, Some([json |-> "object", fields |-> {<<"note_path", ToPath("A")>>}])}
              \cup {Some(ReferenceDataToValue(ReferenceData(p, h))) :
                        p \in {ToPath("A"), Root \o "/C.md"},
                        h \in {<<"I">>, <<"J">>, <<"X">>}}}

\* the lenses of the last answer: generated, or resolved already
ResLastLenses ==
    IF resp.op = "code_lenses" /\ resp.result # None
    THEN {resp.result[1][k] : k \in 1..Len(resp.result[1])}
    ELSE IF resp.op = "code_lens_resolve" /\ resp.result # None
    THEN {resp.result[1]}
    ELSE {}

InitRes ==
    /\ facts \in Stores(ResNotesA, ResNotesB)
    /\ diagCol = EmptyMap
    /\ passSets = EmptyMap
    /\ resp = [op |-> "init"]

NextRes ==
    \/ CodeLensesReq(ToPath("A"))
    \/ \E lens \in ResClientLenses : CodeLensResolveReq(lens)
    \/ \E lens \in ResLastLenses : CodeLensResolveReq(lens)

SpecRes == InitRes /\ [][NextRes]_vars

\* the payload of the resolved lens names a known note and one of its headings
ResNamesHeading ==
    /\ resp.op = "code_lens_resolve"
    /\ resp.lens.data # None
    /\ ReferenceDataFromValue(resp.lens.data[1]) # None
    /\ LET rd == ReferenceDataFromValue(resp.lens.data[1])[1]
       IN /\ rd.note_path \in DOMAIN facts
          /\ \E h \in HeadingIds(facts[rd.note_path]) :
                facts[rd.note_path].els[h].text = rd.heading_text

ResPath == ReferenceDataFromValue(resp.lens.data[1])[1].note_path

\* the heading the payload names: the first one with the text
ResHeading ==
    LET note == facts[ResPath]
        text == ReferenceDataFromValue(resp.lens.data[1])[1].heading_text
    IN CHOOSE h \in HeadingIds(note) :
          /\ note.els[h].text = text
          /\ \A g \in HeadingIds(note) : note.els[g].text = text => h <= g

\* the references to the named heading whose span has an editor range
ResConvertible ==
    {sr \in UNION {{<<src, i>> : i \in 1..Len(facts[src].els)} : src \in DOMAIN facts} :
        /\ facts[sr[1]].els[sr[2]].kind = "LinkRef"
        /\ RefTarget(facts, sr[1], facts[sr[1]].els[sr[2]]) = Some(<<ResPath, ResHeading>>)
        /\ facts[sr[1]].els[sr[2]].span.end <= Len(facts[sr[1]].text)}

ResLocationOf(sr) ==
    [uri |-> "file://" \o sr[1],
     range |-> [start |-> StartPos(facts[sr[1]].text, facts[sr[1]].els[sr[2]].span.start),
                end |-> StartPos(facts[sr[1]].text, facts[sr[1]].els[sr[2]].span.end)]]

\* the answer is the lens with the command "K references" over the K
\* convertible references, with the argument absent when K = 0
ResCommandCounts ==
    /\ resp.result # None
    /\ resp.result[1].command # None
    /\ LET cmd == resp.result[1].command[1]
           K == Cardinality(ResConvertible)
       IN /\ cmd.title = ToString(K) \o " references"
          /\ K = 0 => cmd.arguments = None
          /\ K > 0 =>
                /\ cmd.arguments # None
                /\ Len(cmd.arguments[1]) = 1
                /\ LET locs == JsonField(cmd.arguments[1][1], "locations")[1]
                   IN /\ Len(locs) = K
                      /\ {locs[k] : k \in 1..K} = {ResLocationOf(sr) : sr \in ResConvertible}

\* C11 as stated: a lens whose payload names an existing note and heading is
\* resolved to a lens with the command "K references", K the number of
\* incoming references whose span converts, with exactly those K locations
\* as argument when K > 0 and no argument when K = 0.
ResolveCountsReferences ==
    ResNamesHeading => ResCommandCounts

ResHeadingStartConverts ==
    facts[ResPath].els[ResHeading].span.start <= Len(facts[ResPath].text)

\* C11, amended: the same when the start of the named heading's span
\* converts to an editor position; when it does not, nothing is returned.
ResolveCountsReferencesWhenAnchored ==
    ResNamesHeading =>
        IF ResHeadingStartConverts THEN ResCommandCounts ELSE resp.result = None

\* a heading with two references, one of them unconvertible
ResolveCountsReferencesWitness ==
    /\ ResNamesHeading
    /\ ResHeadingStartConverts
    /\ Len(RefsToHeading(facts, ResPath, ResHeading)) = 2
    /\ resp.result # None
    /\ resp.result[1].command[1].title = "1 references"
    /\ resp.result[1].command[1].arguments # None

\* a heading with references none of which converts
ResolveZeroWitness ==
    /\ ResNamesHeading
    /\ ResHeadingStartConverts
    /\ Len(RefsToHeading(facts, ResPath, ResHeading)) >= 1
    /\ resp.result # None
    /\ resp.result[1].command[1].title = "0 references"
    /\ resp.result[1].command[1].arguments = None

\* the named heading has a stale span
ResolveUnanchoredWitness ==
    /\ ResNamesHeading
    /\ ~ResHeadingStartConverts
    /\ resp.result = None

----------------------------------------------------------------------------
(* Hover and goto_definition: kinds of answer *)

NavAnswered == resp.op \in {"hover", "goto_definition"}

\* C12: hover and goto_definition never fail hard: each either returns a
\* result or yields nothing, for every store, path and position, also when
\* the target heading's span has no editor range.
NavNeverFailsHard ==
    NavAnswered => ~IsPanic(resp.result)

\* goto_definition on a link reference whose target heading has a stale span
NavFailsHardWitness ==
    /\ resp.op = "goto_definition"
    /\ IsPanic(resp.result)
    /\ LET ref == facts[resp.path].els[ElementAtLspPos(facts[resp.path], resp.pos)[1]]
           target == RefTarget(facts, resp.path, ref)
       IN /\ ref.kind = "LinkRef"
          /\ target # None
          /\ RangeToLspRange(facts[target[1][1]].text,
                             facts[target[1][1]].els[target[1][2]].span) = None

----------------------------------------------------------------------------
(* Completion resolution *)

\* Documentation::MarkupContent of kind Markdown
MarkdownDoc(value) == [kind |-> "markdown", value |-> value]

\* completion_resolve with the whole text of the note for either payload
CompletionResolveWholeText(f, unresolved) ==
    IF unresolved.data = None THEN None
    ELSE LET completion_type == CompletionTypeFromValue(unresolved.data[1])
         IN IF completion_type = None THEN None
            ELSE LET note_id == FindByName(f, completion_type[1].note_name)
                 IN IF note_id = None THEN None
                    ELSE Some([unresolved EXCEPT !.documentation =
                                  Some(MarkdownDoc(f[note_id[1]].text))])

\* completion_resolve that attaches the whole text and hands the item back
\* without its payload
CompletionResolveDropsPayload(f, unresolved) ==
    LET r == CompletionResolveWholeText(f, unresolved)
    IN IF r = None THEN None ELSE Some([r[1] EXCEPT !.data = None])

CompletionResolve(f, unresolved) ==
    IF unresolved.data = None THEN None
    ELSE
    LET completion_type == CompletionTypeFromValue(unresolved.data[1])
    IN IF completion_type = None THEN None
       ELSE IF completion_type[1].type = "NoteCompletion"
       THEN LET note_id == FindByName(f, completion_type[1].note_name)
            IN IF note_id = None THEN None
               ELSE Some([unresolved EXCEPT !.documentation =
                             Some(MarkdownDoc(f[note_id[1]].text))])
       ELSE LET note_id == FindByName(f, completion_type[1].note_name)
            IN IF note_id = None THEN None
               ELSE
               LET note == f[note_id[1]]
                   h_id == HeadingWithText(note, completion_type[1].heading)
               IN IF h_id = None THEN None
                  ELSE LET content == Slice(note.text, note.els[h_id[1]].scope)
                       IN Some([unresolved EXCEPT !.documentation =
                                   Some(MarkdownDoc(content))])

\* a resolve request that drops the note it has read from the store
CompletionResolveReqEvicts(unresolved) ==
    /\ resp' = [op |-> "completion_resolve", item |-> unresolved,
                result |-> CompletionResolve(facts, unresolved)]
    /\ facts' = IF resp'.result = None THEN facts ELSE MapRemove(facts, ToPath("A"))
    /\ UNCHANGED <<diagCol, passSets>>

CompletionResolveReq(unresolved) ==
    /\ resp' = [op |-> "completion_resolve", item |-> unresolved,
                result |-> CompletionResolve(facts, unresolved)]
    /\ UNCHANGED <<facts, diagCol, passSets>>

----------------------------------------------------------------------------
(* Completion: candidates held by the client while the store changes *)

\* note A holds a reference being typed: to a note titled I, or to a heading of B
HeldRefs ==
    {LinkRef(<<>>, Some("I"), None, Span(2, 3)),
     LinkRef(<<>>, Some("B"), Some(<<"I">>), Span(2, 3))}

HeldParsesA == {[els |-> r, diag |-> {}] : r \in {<<x>> : x \in HeldRefs}}

\* the structures of note B: up to MaxHeadings of a title and two sections
HeldParsesB ==
    {[els |-> hs, diag |-> {}] : hs \in SeqsUpTo(ComplHeadings, MaxHeadings)}

HeldEdit == <<[range |-> None, text |-> <<"e">>]>>

\* the items a client holds: the candidates completion_candidates can have
\* returned, one without payload, one with a payload that is no CompletionType
HeldItems ==
    {CompletionItem(<<"I">>, "File", Some(NameChars(n)), Some(NameChars(n)),
                    Some(CompletionTypeToValue(NoteCompletion(n)))) : n \in {"B"}}
    \cup {CompletionItem(h, "Text", None, None,
                         Some(CompletionTypeToValue(HeadingCompletion("B", h)))) :
              h \in {<<"I">>, <<"I", "n">>}}
    \cup {CompletionItem(<<"I">>, "Text", None, None, d) :
              d \in {None, Some([NoteCompletion |-> [name |-> "B"]])}}

NextHeld ==
    \/ NoteOpen(ToPath("A"), 1, TextA, HeldParsesA)
    \/ NoteOpen(ToPath("B"), 1, TextB, HeldParsesB)
    \/ NoteApplyChanges(ToPath("B"), MaxVersion, HeldEdit, HeldParsesB)
    \/ \E disk \in {None, Some(TextB)} : NoteClose(ToPath("B"), disk, HeldParsesB)
    \/ CompletionCandidatesReq(ToPath("A"), [line |-> 1, character |-> 0])
    \/ \E item \in HeldItems : CompletionResolveReq(item)

SpecHeld == Init /\ [][NextHeld]_vars

\* the payload of the resolved item, read field by field
HeldPayload == resp.item.data[1]

HeldIsNotePayload ==
    /\ resp.item.data # None
    /\ DOMAIN HeldPayload = {"NoteCompletion"}
    /\ DOMAIN HeldPayload.NoteCompletion = {"note_name"}

HeldIsHeadingPayload ==
    /\ resp.item.data # None
    /\ DOMAIN HeldPayload = {"HeadingCompletion"}
    /\ DOMAIN HeldPayload.HeadingCompletion = {"note_name", "heading"}

\* the documentation the current store gives to the resolved item, if any
HeldCurrentDoc ==
    IF HeldIsNotePayload
    THEN LET path == ToPath(HeldPayload.NoteCompletion.note_name)
         IN IF path \in DOMAIN facts THEN Some(facts[path].text) ELSE None
    ELSE IF HeldIsHeadingPayload
    THEN LET path == ToPath(HeldPayload.HeadingCompletion.note_name)
             text == HeldPayload.HeadingCompletion.heading
         IN IF path \notin DOMAIN facts THEN None
            ELSE LET note == facts[path]
                     found == {h \in HeadingIds(note) : note.els[h].text = text}
                 IN IF found = {} THEN None
                    ELSE LET h == CHOOSE x \in found : \A y \in found : x <= y
                         IN Some([k \in 1..(note.els[h].scope.end - note.els[h].scope.start)
                                     |-> note.text[note.els[h].scope.start + k]])
    ELSE None

\* C13: every candidate completion_candidates returns is an item the client
\* can resolve at any later time, whatever note_open / note_apply_changes /
\* note_close did in between; the resolved item is the item with, as
\* documentation, the target note's current whole text (NoteCompletion) or
\* the current scope of the heading now found by the text
\* (HeadingCompletion), and nothing is returned when the payload is missing
\* or malformed or the named note or heading is not in the current store.
ResolveUsesCurrentStore ==
    /\ (resp.op = "completion_candidates" /\ resp.result # None) =>
           \A k \in 1..Len(resp.result[1]) : resp.result[1][k] \in HeldItems
    /\ resp.op = "completion_resolve" =>
           IF HeldCurrentDoc = None THEN resp.result = None
           ELSE resp.result = Some([resp.item EXCEPT !.documentation =
                                       Some([kind |-> "markdown",
                                             value |-> HeldCurrentDoc[1]])])

\* a heading candidate resolved after an edit replaced the text of its note
ResolveUsesCurrentStoreWitness ==
    /\ resp.op = "completion_resolve"
    /\ HeldIsHeadingPayload
    /\ ToPath("B") \in DOMAIN facts
    /\ facts[ToPath("B")].text = <<"e">>
    /\ facts[ToPath("B")].version = Vs(MaxVersion)
    /\ resp.result # None
    /\ resp.result[1].documentation = Some([kind |-> "markdown", value |-> <<"e">>])

\* a note candidate resolved after its note left the store
ResolveAfterCloseWitness ==
    /\ resp.op = "completion_resolve"
    /\ HeldIsNotePayload
    /\ ToPath("B") \notin DOMAIN facts
    /\ ToPath("A") \in DOMAIN facts
    /\ resp.result = None

\* candidates were returned
HeldCandidatesWitness ==
    /\ resp.op = "completion_candidates" /\ resp.result # None
    /\ Len(resp.result[1]) = 2

----------------------------------------------------------------------------
(* Hover and goto_definition: the target of a link reference *)

\* the request's position is on a link reference of a known note
NavOnLinkRef ==
    /\ resp.path \in DOMAIN facts
    /\ ElementAtLspPos(facts[resp.path], resp.pos) # None
    /\ facts[resp.path].els[ElementAtLspPos(facts[resp.path], resp.pos)[1]].kind = "LinkRef"

NavRef == facts[resp.path].els[ElementAtLspPos(facts[resp.path], resp.pos)[1]]

\* the path of the note the reference names, or of the current note
NavTargetPath ==
    IF NavRef.note_name # None THEN ToPath(NavRef.note_name[1]) ELSE resp.path

\* the headings of the target note the reference can mean: those with the
\* named text, or those of level 1 when no heading is named
NavTargetHeadings ==
    LET note == facts[NavTargetPath]
    IN IF NavRef.heading # None
       THEN {h \in HeadingIds(note) : note.els[h].text = NavRef.heading[1]}
       ELSE {h \in HeadingIds(note) : note.els[h].level = 1}

NavTargetHeading == CHOOSE h \in NavTargetHeadings : \A g \in NavTargetHeadings : h <= g

NavTargetSpan == facts[NavTargetPath].els[NavTargetHeading].span

NavTargetLocation ==
    [uri |-> "file://" \o NavTargetPath,
     range |-> [start |-> StartPos(facts[NavTargetPath].text, NavTargetSpan.start),
                end |-> StartPos(facts[NavTargetPath].text, NavTargetSpan.end)]]

\* C14: goto_definition on a LinkRef takes the named note, else the current
\* note, as target; with a heading named it returns the location of that
\* heading and nothing when the heading is not found (no fall back to the
\* title); with no heading named it returns the location of the target's
\* title and nothing when there is no title.
GotoResolvesTarget ==
    (resp.op = "goto_definition" /\ NavOnLinkRef) =>
        IF NavTargetPath \notin DOMAIN facts \/ NavTargetHeadings = {}
        THEN resp.result = None
        ELSE /\ ~IsPanic(resp.result)
             /\ resp.result = Some(NavTargetLocation)

\* the same for the targets whose span has an editor range; for the others
\* the handler panics
GotoResolvesConvertibleTarget ==
    (resp.op = "goto_definition" /\ NavOnLinkRef) =>
        IF NavTargetPath \notin DOMAIN facts \/ NavTargetHeadings = {}
        THEN resp.result = None
        ELSE IF NavTargetSpan.end > Len(facts[NavTargetPath].text)
        THEN IsPanic(resp.result)
        ELSE resp.result = Some(NavTargetLocation)

\* a reference that names no heading, to a note whose title has a stale span
GotoTitlePanicsWitness ==
    /\ resp.op = "goto_definition" /\ NavOnLinkRef
    /\ NavRef.heading = None
    /\ NavTargetPath \in DOMAIN facts
    /\ NavTargetPath # resp.path
    /\ NavTargetHeadings # {}
    /\ NavTargetSpan.end > Len(facts[NavTargetPath].text)
    /\ IsPanic(resp.result)

\* a named heading that is missing in a target note that has a title
GotoNoFallbackWitness ==
    /\ resp.op = "goto_definition" /\ NavOnLinkRef
    /\ NavRef.heading # None
    /\ NavTargetPath \in DOMAIN facts
    /\ NavTargetHeadings = {}
    /\ Title(facts[NavTargetPath]) # None
    /\ resp.result = None

\* C15: hover on a LinkRef takes the named note, else the current note, as
\* target; its content is the text of the scope of the named heading when a
\* heading is named and found, the target's whole text when no heading is
\* named, and there is no result when the target note or the named heading
\* is not found.
HoverShowsTarget ==
    (resp.op = "hover" /\ NavOnLinkRef) =>
        IF NavTargetPath \notin DOMAIN facts
           \/ (NavRef.heading # None /\ NavTargetHeadings = {})
        THEN resp.result = None
        ELSE /\ resp.result # None
             /\ resp.result[1].contents.value =
                    IF NavRef.heading = None THEN facts[NavTargetPath].text
                    ELSE LET sc == facts[NavTargetPath].els[NavTargetHeading].scope
                         IN [k \in 1..(sc.end - sc.start) |->
                                facts[NavTargetPath].text[sc.start + k]]

\* hover on a reference to a heading of the other note, found there with a
\* scope that is a proper part of the text
HoverShowsTargetWitness ==
    /\ resp.op = "hover" /\ NavOnLinkRef
    /\ NavRef.heading # None
    /\ NavTargetPath \in DOMAIN facts
    /\ NavTargetPath # resp.path
    /\ NavTargetHeadings # {}
    /\ resp.result # None
    /\ Len(resp.result[1].contents.value) = 1

\* hover on a reference with no heading and no note name: the own text
HoverWholeTextWitness ==
    /\ resp.op = "hover" /\ NavOnLinkRef
    /\ NavRef.heading = None /\ NavRef.note_name = None
    /\ resp.result # None
    /\ resp.result[1].contents.value = facts[resp.path].text

----------------------------------------------------------------------------
(* Completion: absent or non-empty *)

\* C16: completion_candidates never returns a present-but-empty list: the
\* result is absent or a list of at least one candidate, whether generation
\* stopped at a failed lookup or ran to the end with no match.
CompletionNeverEmptyList ==
    resp.op = "completion_candidates" =>
        \/ resp.result = None
        \/ (Len(resp.result) = 1 /\ Len(resp.result[1]) >= 1)

\* the heading branch ran to the end in a known target note and found no
\* heading to offer
CompletionNoMatchWitness ==
    /\ resp.op = "completion_candidates"
    /\ OnLinkRef
    /\ CursorRef.heading # None
    /\ ToPath(HeadingTargetName) \in DOMAIN facts
    /\ OfferableHeadings = {}
    /\ resp.result = None

\* generation stopped at the lookup of the target note
CompletionNoTargetWitness ==
    /\ resp.op = "completion_candidates"
    /\ OnLinkRef
    /\ CursorRef.heading # None
    /\ ToPath(HeadingTargetName) \notin DOMAIN facts
    /\ resp.result = None

----------------------------------------------------------------------------
(* The two resolve operations over one store *)

TwiceNotesB ==
    {Note(Vs(1), TextB, [els |-> r, diag |-> {}]) :
        r \in {<<>>} \cup {<<x>> : x \in ResRefsB}}

\* completion items a client holds for note A: two with the same payload
\* and different labels, one for a heading A may lack, one for a note that
\* is not known, one without payload
TwiceItems ==
    {CompletionItem(l, "Text", None, None,
                    Some(CompletionTypeToValue(HeadingCompletion("A", <<"I">>)))) :
         l \in {<<"I">>, <<"J">>}}
    \cup {CompletionItem(<<"J">>, "File", Some(NameChars(n)), Some(NameChars(n)),
                         Some(CompletionTypeToValue(NoteCompletion(n)))) : n \in {"A", "C"}}
    \cup {CompletionItem(<<"I">>, "Text", None, None, None)}

\* the item of the last answer, resolved already
TwiceLastItems ==
    IF resp.op = "completion_resolve" /\ resp.result # None THEN {resp.result[1]} ELSE {}

InitTwice ==
    /\ facts \in Stores(ResNotesA, TwiceNotesB)
    /\ diagCol = EmptyMap
    /\ passSets = EmptyMap
    /\ resp = [op |-> "init"]

NextTwice ==
    \/ CodeLensesReq(ToPath("A"))
    \/ \E lens \in ResClientLenses : CodeLensResolveReq(lens)
    \/ \E lens \in ResLastLenses : CodeLensResolveReq(lens)
    \/ \E item \in TwiceItems : CompletionResolveReq(item)
    \/ \E item \in TwiceLastItems : CompletionResolveReq(item)

SpecTwice == InitTwice /\ [][NextTwice]_vars

\* C17: with the store unchanged, a resolve operation answers from the
\* item's payload and the store alone: any held item with the same payload
\* gets the same documentation (completion) or command (lens) at any time
\* and in any order, an item that was resolved before resolves to itself,
\* and the resolved item is the unresolved one in every field but the
\* documentation (completion) or the command (lens), payload included.
ResolveIsStateless ==
    /\ (resp.op = "completion_resolve" /\ resp.result # None) =>
          /\ resp.result[1] = [resp.item EXCEPT !.documentation =
                                  resp.result[1].documentation]
          /\ resp.result[1].data = resp.item.data
          /\ resp.item.documentation # None => resp.result[1] = resp.item
          /\ \A other \in TwiceItems :
                other.data = resp.item.data =>
                    /\ CompletionResolve(facts, other) # None
                    /\ CompletionResolve(facts, other)[1].documentation
                           = resp.result[1].documentation
    /\ (resp.op = "completion_resolve" /\ resp.result = None) =>
          \A other \in TwiceItems :
             other.data = resp.item.data => CompletionResolve(facts, other) = None
    /\ (resp.op = "code_lens_resolve" /\ resp.result # None) =>
          /\ resp.result[1] = [resp.lens EXCEPT !.command = resp.result[1].command]
          /\ resp.result[1].data = resp.lens.data
          /\ resp.lens.command # None => resp.result[1] = resp.lens
          /\ \A other \in ResClientLenses :
                other.data = resp.lens.data => CodeLensResolve(facts, other) = resp.result
                    \/ resp.lens.command # None

\* an item resolved a second time, with a documentation
ResolveIsStatelessWitness ==
    /\ resp.op = "completion_resolve"
    /\ resp.item.documentation # None
    /\ resp.result = Some(resp.item)
    /\ resp.item.label = <<"J">>
    /\ DOMAIN resp.item.data[1] = {"HeadingCompletion"}

\* a lens resolved a second time, with a command that has an argument
ResolveLensTwiceWitness ==
    /\ resp.op = "code_lens_resolve"
    /\ resp.lens.command # None
    /\ resp.result = Some(resp.lens)
    /\ resp.lens.command[1].arguments # None

----------------------------------------------------------------------------
(* Symbols *)

SymbolInformation(name, location) ==
    [name |-> name, kind |-> "String", tags |-> None, deprecated |-> None,
     location |-> location, container_name |-> None]

\* the loop of document_symbols that ends at the first heading whose span
\* does not convert
RECURSIVE DocumentSymbolsLoopStops(_, _, _)
DocumentSymbolsLoopStops(f, path, matching_ids) ==
    IF matching_ids = <<>> THEN <<>>
    ELSE LET note == f[path]
             hd == note.els[Head(matching_ids)]
             lsp_range == RangeToLspRange(note.text, hd.span)
         IN IF lsp_range = None THEN <<>>
            ELSE <<SymbolInformation(hd.text, [uri |-> UrlFromFilePath(path),
                                               range |-> lsp_range[1]])>>
                 \o DocumentSymbolsLoopStops(f, path, Tail(matching_ids))

\* the loop of document_symbols over the matching headings (lines 103-119)
RECURSIVE DocumentSymbolsLoop(_, _, _)
DocumentSymbolsLoop(f, path, matching_ids) ==
    IF matching_ids = <<>> THEN <<>>
    ELSE LET note == f[path]
             hd == note.els[Head(matching_ids)]
             lsp_range == RangeToLspRange(note.text, hd.span)
             rest == DocumentSymbolsLoop(f, path, Tail(matching_ids))
         IN IF lsp_range = None THEN rest
            ELSE <<SymbolInformation(hd.text, [uri |-> UrlFromFilePath(path),
                                               range |-> lsp_range[1]])>> \o rest

DocumentSymbols(f, path, query) ==
    IF FindByPath(f, path) = None THEN <<>>
    ELSE DocumentSymbolsLoop(f, path, HeadingsMatching(f[path], query))

RECURSIVE WorkspaceSymbolsLoop(_, _, _)
WorkspaceSymbolsLoop(f, files, query) ==
    IF files = <<>> THEN <<>>
    ELSE DocumentSymbols(f, Head(files), query)
         \o WorkspaceSymbolsLoop(f, Tail(files), query)

WorkspaceSymbols(f, query) == WorkspaceSymbolsLoop(f, Ids(f), query)

DocumentSymbolsReq(path, query) ==
    /\ resp' = [op |-> "document_symbols", path |-> path, query |-> query,
                result |-> DocumentSymbols(facts, path, query)]
    /\ UNCHANGED <<facts, diagCol, passSets>>

WorkspaceSymbolsReq(query) ==
    /\ resp' = [op |-> "workspace_symbols", query |-> query,
                result |-> WorkspaceSymbols(facts, query)]
    /\ UNCHANGED <<facts, diagCol, passSets>>

----------------------------------------------------------------------------
(* Symbols over the stores of two notes *)

\* headings with texts I, J and I n; one has a stale span
SymHeadings ==
    NavHeadings \cup {Heading(<<"I", "n">>, 2, Span(1, 2), Span(1, 2))}

SymNotesA ==
    {Note(Vs(1), TextA, [els |-> hs, diag |-> {}]) :
        hs \in SeqsUpTo(SymHeadings, MaxHeadings)}

SymNotesB ==
    {Note(Vs(1), TextB, [els |-> hs \o <<LinkRef(<<>>, None, None, Span(0, 1))>>,
                         diag |-> {}]) :
        hs \in SeqsUpTo(NavHeadings, MaxHeadings)}

SymQueries == {<<>>, <<"I">>, <<"n">>, <<"X">>}

InitSym ==
    /\ facts \in Stores(SymNotesA, SymNotesB)
    /\ diagCol = EmptyMap
    /\ passSets = EmptyMap
    /\ resp = [op |-> "init"]

NextSym ==
    \/ \E p \in Paths, query \in SymQueries : DocumentSymbolsReq(p, query)
    \/ \E query \in SymQueries : WorkspaceSymbolsReq(query)

SpecSym == InitSym /\ [][NextSym]_vars

\* the query occurs in the text
SymMatches(text, query) ==
    \E k \in 0..(Len(text) - Len(query)) :
        \A j \in 1..Len(query) : text[k + j] = query[j]

\* the headings of a known note that get a symbol
SymHeadingsOf(path, query) ==
    {h \in HeadingIds(facts[path]) :
        /\ SymMatches(facts[path].els[h].text, query)
        /\ facts[path].els[h].span.end <= Len(facts[path].text)}

SymOf(path, h) ==
    [name |-> facts[path].els[h].text, kind |-> "String", tags |-> None,
     deprecated |-> None, container_name |-> None,
     location |-> [uri |-> "file://" \o path,
                   range |-> [start |-> StartPos(facts[path].text,
                                                 facts[path].els[h].span.start),
                              end |-> StartPos(facts[path].text,
                                               facts[path].els[h].span.end)]]]

\* C19: document_symbols returns an empty list for an unknown note and, for
\* a known note, one symbol for each heading whose text matches the query
\* and whose span converts, in the order of the headings, skipping the
\* others; workspace_symbols returns, as a set, the union of document_symbols
\* over the known notes (and as many symbols as they return together).
SymbolsPerMatchingHeading ==
    /\ resp.op = "document_symbols" =>
          IF resp.path \notin DOMAIN facts THEN resp.result = <<>>
          ELSE LET hs == Ascending(SymHeadingsOf(resp.path, resp.query))
               IN /\ Len(resp.result) = Len(hs)
                  /\ \A k \in 1..Len(hs) : resp.result[k] = SymOf(resp.path, hs[k])
    /\ resp.op = "workspace_symbols" =>
          /\ {resp.result[k] : k \in 1..Len(resp.result)}
                = UNION {{DocumentSymbols(facts, p, resp.query)[k] :
                             k \in 1..Len(DocumentSymbols(facts, p, resp.query))} :
                         p \in DOMAIN facts}
          /\ {resp.result[k] : k \in 1..Len(resp.result)}
                = UNION {{SymOf(p, h) : h \in SymHeadingsOf(p, resp.query)} :
                         p \in DOMAIN facts}

\* a matching heading with a stale span comes before one that converts: the
\* first is skipped, the second is returned
SymbolsSkipStaleWitness ==
    /\ resp.op = "document_symbols"
    /\ resp.path \in DOMAIN facts
    /\ Len(resp.result) = 1
    /\ \E g, h \in HeadingIds(facts[resp.path]) :
          /\ g < h
          /\ SymMatches(facts[resp.path].els[g].text, resp.query)
          /\ facts[resp.path].els[g].span.end > Len(facts[resp.path].text)
          /\ h \in SymHeadingsOf(resp.path, resp.query)

\* symbols of both notes in one workspace answer
SymbolsWorkspaceWitness ==
    /\ resp.op = "workspace_symbols"
    /\ \E i, j \in 1..Len(resp.result) :
          resp.result[i].location.uri # resp.result[j].location.uri

\* an unknown note has no symbols
SymbolsUnknownWitness ==
    /\ resp.op = "document_symbols"
    /\ resp.path \notin DOMAIN facts
    /\ DOMAIN facts # {}
    /\ resp.result = <<>>

----------------------------------------------------------------------------
(* All operations over one store *)

\* the structures of a one-character text: none, or a link reference to the
\* heading that follows it, with a diagnostic
AllParses ==
    {[els |-> <<>>, diag |-> {}],
     [els |-> <<LinkRef(<<>>, None, Some(<<"I">>), Span(0, 1)),
                Heading(<<"I">>, 2, Span(0, 1), Span(0, 1))>>,
      diag |-> {[kind |-> "broken", at |-> 0]}]}

AllPos == [line |-> 0, character |-> 0]

AllItem ==
    CompletionItem(<<"I">>, "Text", None, None,
                   Some(CompletionTypeToValue(HeadingCompletion("A", <<"I">>))))

AllLens ==
    [range |-> [start |-> AllPos, end |-> AllPos], command |-> None,
     data |-> Some(ReferenceDataToValue(ReferenceData(ToPath("A"), <<"I">>)))]

NextAll ==
    \/ \E p \in Paths : NoteOpen(p, 1, <<"a">>, AllParses)
    \/ NoteApplyChanges(ToPath("A"), MaxVersion, <<[range |-> None, text |-> <<"c">>]>>,
                        AllParses)
    \/ \E disk \in {None, Some(<<"a">>)} : NoteClose(ToPath("A"), disk, AllParses)
    \/ DocumentSymbolsReq(ToPath("A"), <<>>)
    \/ WorkspaceSymbolsReq(<<>>)
    \/ CompletionCandidatesReq(ToPath("A"), AllPos)
    \/ CompletionResolveReq(AllItem)
    \/ HoverReq(ToPath("A"), AllPos)
    \/ GotoDefinitionReq(ToPath("A"), AllPos)
    \/ SemanticTokensFullReq(ToPath("A"))
    \/ SemanticTokensRangeReq(ToPath("A"), [start |-> AllPos,
                                            end |-> [line |-> 0, character |-> 1]])
    \/ DiagPass
    \/ CodeLensesReq(ToPath("A"))
    \/ CodeLensResolveReq(AllLens)

SpecAll == Init /\ [][NextAll]_vars

QueryOps ==
    {"document_symbols", "workspace_symbols", "completion_candidates",
     "completion_resolve", "hover", "goto_definition", "semantic_tokens_full",
     "semantic_tokens_range", "diag", "code_lenses", "code_lens_resolve"}

\* C18: a step of any query operation leaves the note store as it was (the
\* known notes, their texts and versions); only note_open,
\* note_apply_changes and note_close steps change it; diag is given the
\* previous collection and leaves it as it was when it returns no result (a
\* result carries a new collection).
QueriesLeaveStore ==
    [][/\ resp'.op \in QueryOps => facts' = facts
       /\ facts' # facts => resp'.op \in {"note_open", "note_apply_changes", "note_close"}
       /\ resp'.op = "diag" =>
             /\ resp'.prev = diagCol
             /\ resp'.result = None => diagCol' = diagCol]_vars

\* a resolve answered with a documentation over a store of two notes
QueriesLeaveStoreWitness ==
    /\ resp.op = "completion_resolve"
    /\ resp.result # None
    /\ DOMAIN facts = Paths
    /\ facts[ToPath("A")].version = Vs(MaxVersion)

\* a diag pass with no result over a store with a note
QueriesLeaveStoreDiagWitness ==
    /\ resp.op = "diag"
    /\ resp.result = None
    /\ DOMAIN facts # {}
    /\ diagCol = resp.prev

----------------------------------------------------------------------------
(* Diagnostics: files that left the store *)

\* the files with an entry in the collection given to the pass that are no
\* known notes
DiagRemoved == (DOMAIN resp.prev) \ (DOMAIN facts)

\* C20: a diag pass goes over the known notes only: when a file with an
\* entry in the previous collection is no known note any more and no known
\* note's diagnostics changed, there is no result; no pass publishes for a
\* removed file; a returned collection has no entry for a file that is not
\* a known note.
DiagSkipsRemovedFiles ==
    resp.op = "diag" =>
        /\ (DiagRemoved # {}
              /\ \A file \in DOMAIN facts :
                    file \in DOMAIN resp.prev /\ resp.prev[file] = facts[file].diag)
               => resp.result = None
        /\ \A file \in DiagRemoved :
              \A i \in 1..Len(Published) : Published[i].uri # "file://" \o file
        /\ resp.result # None => DOMAIN resp.result[1].new_col \subseteq DOMAIN facts

\* a note was closed and is gone, the other note is unchanged: no result,
\* and the collection kept by the caller still has the removed file
DiagSkipsRemovedFilesWitness ==
    /\ resp.op = "diag"
    /\ DiagRemoved # {}
    /\ DOMAIN facts # {}
    /\ resp.result = None
    /\ DiagRemoved \subseteq DOMAIN diagCol

\* a note is gone and the other note changed: the result drops the removed file
DiagDropsRemovedWitness ==
    /\ resp.op = "diag"
    /\ DiagRemoved # {}
    /\ resp.result # None
    /\ DOMAIN resp.result[1].new_col = DOMAIN facts
    /\ DOMAIN facts # {}

----------------------------------------------------------------------------
(* Code lenses: generation followed by resolution, headings sharing a text *)

\* headings of note A: two with the text "I" whose spans have an editor
\* range (the second of level 1), one with the text "I" and a stale span,
\* and one with another text
RoundHeadings ==
    {Heading(<<"I">>, 2, Span(0, 1), Span(0, 2)),
     Heading(<<"I">>, 1, Span(2, 3), Span(2, 3)),
     Heading(<<"I">>, 2, Span(4, 5), Span(1, 2)),
     Heading(<<"J">>, 1, Span(0, 1), Span(0, 1))}

RoundNotesA ==
    {Note(Vs(1), TextA, [els |-> hs, diag |-> {}]) :
        hs \in SeqsUpTo(RoundHeadings, MaxHeadings)}

InitRound ==
    /\ facts \in Stores(RoundNotesA, ResNotesB)
    /\ diagCol = EmptyMap
    /\ passSets = EmptyMap
    /\ resp = [op |-> "init"]

\* code_lenses, then code_lens_resolve of a lens of the last answer; no
\* operation of this specification writes the store
NextRound ==
    \/ \E p \in Paths : CodeLensesReq(p)
    \/ \E lens \in ResLastLenses : CodeLensResolveReq(lens)

SpecRound == InitRound /\ [][NextRound]_vars

\* the lens that code_lenses makes for heading h of the note at path
RoundLensOf(path, h) ==
    [range |-> RangeToLspRange(facts[path].text, facts[path].els[h].span)[1],
     command |-> None,
     data |-> Some(ReferenceDataToValue(
                 ReferenceData(path, facts[path].els[h].text)))]

\* the headings whose generated lens is the lens that was resolved
RoundHeadingsOfLens ==
    IF resp.op # "code_lens_resolve" THEN {}
    ELSE {ph \in UNION {{<<p, h>> : h \in Lensed(facts, p)} : p \in DOMAIN facts} :
            resp.lens = RoundLensOf(ph[1], ph[2])}

\* the references to heading h of the note at path, and those with a span
\* that has an editor range
RoundRefs(path, h) ==
    {sr \in UNION {{<<src, i>> : i \in 1..Len(facts[src].els)} : src \in DOMAIN facts} :
        /\ facts[sr[1]].els[sr[2]].kind = "LinkRef"
        /\ RefTarget(facts, sr[1], facts[sr[1]].els[sr[2]]) = Some(<<path, h>>)}

RoundConvertible(path, h) ==
    {sr \in RoundRefs(path, h) :
        facts[sr[1]].els[sr[2]].span.end <= Len(facts[sr[1]].text)}

\* the answer is a lens whose command counts the references of heading h
RoundCountsRefsOf(path, h) ==
    /\ resp.result # None
    /\ resp.result[1].command # None
    /\ LET cmd == resp.result[1].command[1]
           K == Cardinality(RoundConvertible(path, h))
       IN /\ cmd.title = ToString(K) \o " references"
          /\ RoundConvertible(path, h) = RoundRefs(path, h) => K >= 1
          /\ K = 0 => cmd.arguments = None
          /\ K > 0 =>
                /\ cmd.arguments # None
                /\ LET data == cmd.arguments[1][1]
                       locs == JsonField(data, "locations")[1]
                   IN /\ {locs[k] : k \in 1..Len(locs)} =
                            {ResLocationOf(sr) : sr \in RoundConvertible(path, h)}
                      /\ JsonField(data, "position")[1] =
                            StartPos(facts[path].text, facts[path].els[h].span.start)

\* C21: for every lens that code_lenses makes for a heading h, resolving
\* that lens over the same store returns a lens whose command counts the
\* references of h itself (at least 1 when all of them convert), also when
\* the note has several headings with the text of h.
GenerateThenResolveAgree ==
    \A ph \in RoundHeadingsOfLens : RoundCountsRefsOf(ph[1], ph[2])

\* the heading is the first one of its note with its text
RoundFirstWithText(path, h) ==
    HeadingWithText(facts[path], facts[path].els[h].text) = Some(h)

\* the same for the headings that are the first of their note with their text
GenerateThenResolveAgreeOnFirst ==
    \A ph \in RoundHeadingsOfLens :
        RoundFirstWithText(ph[1], ph[2]) => RoundCountsRefsOf(ph[1], ph[2])

\* the agreeing case: a lens of a heading with a text of its own, resolved
\* to a command over its references
GenerateThenResolveAgreeWitness ==
    \E ph \in RoundHeadingsOfLens :
        /\ RoundFirstWithText(ph[1], ph[2])
        /\ RoundCountsRefsOf(ph[1], ph[2])
        /\ resp.result[1].command[1].title = "2 references"

\* the lens of the title, the second heading with its text: all of its
\* references convert, and the resolved command counts those of the first
\* heading with the text, which has none
ResolveCountsOtherHeadingWitness ==
    \E ph \in RoundHeadingsOfLens :
        /\ ~RoundFirstWithText(ph[1], ph[2])
        /\ RoundRefs(ph[1], ph[2]) # {}
        /\ RoundConvertible(ph[1], ph[2]) = RoundRefs(ph[1], ph[2])
        /\ resp.result # None
        /\ resp.result[1].command[1].title = "0 references"

\* the first heading with the text has a stale span: the lens of the
\* second one resolves to nothing
ResolveLosesLensWitness ==
    \E ph \in RoundHeadingsOfLens :
        /\ ~RoundFirstWithText(ph[1], ph[2])
        /\ resp.result = None

\* both headings with the text are referenced: the two lenses resolve to
\* the same command, the one of the first heading
ResolveSameCommandWitness ==
    \E ph \in RoundHeadingsOfLens :
        /\ ~RoundFirstWithText(ph[1], ph[2])
        /\ resp.result # None
        /\ resp.result[1].command[1].arguments # None
        /\ ~RoundCountsRefsOf(ph[1], ph[2])

----------------------------------------------------------------------------
(* Text Sync: an empty list of changes, and the other notes *)

\* C22: note_apply_changes on a known note with an empty list of content
\* changes leaves the note's text as it is and still replaces the stored
\* note, whose version becomes the request's version; and no call of
\* note_apply_changes, whatever its changes, adds, removes or alters
\* another note.
EmptyEditReplacesNote ==
    [][resp'.op = "note_apply_changes" =>
          /\ DOMAIN facts' = DOMAIN facts
          /\ \A q \in DOMAIN facts \ {resp'.path} : facts'[q] = facts[q]
          /\ (resp'.path \in DOMAIN facts /\ resp'.changes = <<>>) =>
                /\ facts'[resp'.path].text = facts[resp'.path].text
                /\ facts'[resp'.path].version = Vs(resp'.version)]_vars

\* an empty edit of a note last read from disk, next to another note: the
\* text stays and the version is now the request's
EmptyEditReplacesNoteWitness ==
    /\ resp.op = "note_apply_changes"
    /\ resp.changes = <<>>
    /\ resp.before # None
    /\ resp.before[1].version = Fs
    /\ facts[resp.path].text = resp.before[1].text
    /\ facts[resp.path].version = Vs(resp.version)
    /\ DOMAIN facts = Paths

\* an empty edit that carries a version other than the stored request version
EmptyEditNewVersionWitness ==
    /\ resp.op = "note_apply_changes"
    /\ resp.changes = <<>>
    /\ resp.before # None
    /\ resp.before[1].version = Vs(1)
    /\ facts[resp.path].version = Vs(2)
    /\ facts[resp.path].text = resp.before[1].text
    /\ DOMAIN facts = Paths

====
